---- MODULE Spec2Model ----
(***************************************************************************)
(* A model of the bookmark-ai-organizer extension:                         *)
(*   src/src/utils/bookmark-manager.ts     BookmarkManager                 *)
(*   src/src/utils/llm-classifier.ts       LlmClassifier                   *)
(*   src/src/background/service-worker.ts  BackgroundService               *)
(*                                                                         *)
(* A string is a sequence of characters; a character is a one-element      *)
(* TLA+ string.  "FWA" and "fwa" stand for the single characters U+FF21    *)
(* and U+FF41 (fullwidth A / a), whose compatibility decomposition is the  *)
(* ASCII letter.                                                           *)
(***************************************************************************)
EXTENDS Integers, Sequences, FiniteSets, TLC

VARIABLES
    inPath,     \* sanitizeFolderPath harness: the raw path handed in
    outPath,    \* sanitizeFolderPath harness: the path returned
    spc,        \* sanitizeFolderPath harness: "ready" | "done"
    store,      \* the browser's bookmark tree (chrome.bookmarks)
    ensIn,      \* ensureFolderPath harness: the store and path handed in
    ensOut,     \* ensureFolderPath harness: what the call returned and did
    calls,      \* the createBookmark / moveBookmark calls completed so far
    sweep,      \* the removeEmptyFolders call in progress, if any
    secret,     \* the Secret Store: the saved credential
    prefs,      \* persisted provider preference and selected OpenRouter model
    providers,  \* LlmClassifier.providers, the static table
    inst,       \* LlmClassifier's fields apiKey, providerOverride, selectedOpenRouterModel
    cls,        \* the classifyUrl call in progress or just ended
    batch,      \* the organizeAllBookmarks run in progress or just ended
    walks,      \* createBookmark calls in flight, each between two awaits
    detected,   \* detectProvider harness: the credential and the provider returned
    variants,   \* normalizeFolderName harness: a label and one decorated variant
    suspended   \* organizeAllBookmarks runs waiting at an await while another runs

sanVars == <<inPath, outPath, spc>>
ensVars == <<ensIn, ensOut>>
clsVars == <<secret, prefs, providers, inst, cls>>
bmVars == <<store, calls, sweep, batch>>
pureVars == <<detected, variants>>
vars == <<inPath, outPath, spc, store, ensIn, ensOut, calls, sweep,
          secret, prefs, providers, inst, cls, batch, walks, detected, variants,
          suspended>>

----------------------------------------------------------------------------
(* Bounds *)

MaxPathLen == 4
MaxEnsureLen == 3
MaxCallLen == 2
MaxCalls == 2
MaxSweepNodes == 3
MaxRespLen == 5
MaxClassifyCalls == 2
MaxBatchNodes == 3
MaxRaceLen == 2
MaxServiceNodes == 2
MaxRequests == 1
MaxLabelLen == 3
MaxPlaceLen == 3
MaxRuns == 2
MaxRunNodes == 1

----------------------------------------------------------------------------
(* Characters and strings *)

Whitespace == {" "}
Slash == {"/"}

\* String.prototype.toLowerCase, per character
LowerChar(c) ==
    CASE c = "A" -> "a"
      [] c = "FWA" -> "fwa"
      [] OTHER -> c

\* String.prototype.normalize('NFKD'), per character
NfkdChar(c) ==
    CASE c = "fwa" -> "a"
      [] c = "FWA" -> "A"
      [] OTHER -> c

ToLowerCase(s) == [i \in 1..Len(s) |-> LowerChar(s[i])]
Nfkd(s) == [i \in 1..Len(s) |-> NfkdChar(s[i])]

RECURSIVE StripLeading(_, _)
\* remove the longest prefix of s made of characters of S   (regex ^[S]+)
StripLeading(s, S) ==
    IF s # <<>> /\ Head(s) \in S THEN StripLeading(Tail(s), S) ELSE s

RECURSIVE StripTrailing(_, _)
\* remove the longest suffix of s made of characters of S   (regex [S]+$)
StripTrailing(s, S) ==
    IF s # <<>> /\ s[Len(s)] \in S
    THEN StripTrailing(SubSeq(s, 1, Len(s) - 1), S)
    ELSE s

\* String.prototype.trim
Trim(s) == StripTrailing(StripLeading(s, Whitespace), Whitespace)

RECURSIVE CollapseSpaces(_)
\* replace(/\s+/g, ' ')
CollapseSpaces(s) ==
    IF s = <<>> THEN <<>>
    ELSE IF Head(s) \in Whitespace
         THEN <<" ">> \o CollapseSpaces(StripLeading(s, Whitespace))
         ELSE <<Head(s)>> \o CollapseSpaces(Tail(s))

\* the characters the class [^\p{L}\p{N}] matches
NonLetters == Whitespace \cup Slash \cup {"*"}

normalizeFolderName(name) ==
    LET lowered   == ToLowerCase(name)
        trimmed   == Trim(lowered)
        noLead    == StripLeading(trimmed, Slash)
        noTrail   == StripTrailing(noLead, Slash)
        collapsed == CollapseSpaces(noTrail)
        noSymbols == StripLeading(collapsed, NonLetters)
    IN  Nfkd(noSymbols)

RECURSIVE SanitizeFilter(_, _)
\* the second filter of sanitizeFolderPath: `seen` is the Set of keys so far
SanitizeFilter(path, seen) ==
    IF path = <<>> THEN <<>>
    ELSE LET key == normalizeFolderName(Head(path))
         IN  IF key \in seen
             THEN SanitizeFilter(Tail(path), seen)
             ELSE <<Head(path)>> \o SanitizeFilter(Tail(path), seen \cup {key})

RECURSIVE AdjacentFilter(_, _)
AdjacentFilter(path, prev) ==
    IF path = <<>> THEN <<>>
    ELSE LET key == normalizeFolderName(Head(path))
         IN  IF <<key>> = prev
             THEN AdjacentFilter(Tail(path), prev)
             ELSE <<Head(path)>> \o AdjacentFilter(Tail(path), <<key>>)

\* mutant: only a repeat of the segment just kept is dropped
sanitizeAdjacentOnly(path) ==
    LET trimmed  == [i \in 1..Len(path) |-> Trim(path[i])]
        nonEmpty == SelectSeq(trimmed, LAMBDA p : Len(p) > 0)
    IN  AdjacentFilter(nonEmpty, <<>>)

sanitizeFolderPath(path) ==
    LET trimmed  == [i \in 1..Len(path) |-> Trim(path[i])]
        nonEmpty == SelectSeq(trimmed, LAMBDA p : Len(p) > 0)
    IN  SanitizeFilter(nonEmpty, {})

----------------------------------------------------------------------------
(* Inputs *)

\* Folder labels a classifier can emit: plain, decorated, blank, slash-only,
\* symbol-only, and two different words.
Labels ==
    { <<>>, <<" ", " ">>,
      <<"a">>, <<"A">>, <<"*", "a">>, <<" ", "a", " ">>, <<"/", "a", "/">>,
      <<"a", " ", "/">>, <<"FWA">>,
      <<"b">>, <<"*", " ", "b">>,
      <<"/">>, <<"*">> }

RECURSIVE SeqsUpTo(_, _)
SeqsUpTo(S, n) ==
    IF n = 0 THEN {<<>>}
    ELSE LET shorter == SeqsUpTo(S, n - 1)
         IN  shorter \cup {Append(q, x) : q \in {r \in shorter : Len(r) = n - 1}, x \in S}

----------------------------------------------------------------------------
(* The bookmark store: chrome.bookmarks.  A store is a record
     nodes : id -> [title, isLink]      the nodes that exist
     kids  : folder id -> Seq(id)       each folder's children, in index order
     next  : the id the next created node gets
   Ids are the numbers the browser's decimal id strings denote. *)

NoNode == -1
RootId == 0
BookmarksBarId == 1

NodeIds(st) == DOMAIN st.nodes
FolderIds(st) == DOMAIN st.kids

SeqToSet(q) == {q[i] : i \in 1..Len(q)}

\* chrome.bookmarks.getChildren(parentId)
GetChildren(st, parentId) == st.kids[parentId]

ParentOf(st, id) ==
    IF \E p \in FolderIds(st) : id \in SeqToSet(st.kids[p])
    THEN CHOOSE p \in FolderIds(st) : id \in SeqToSet(st.kids[p])
    ELSE NoNode

\* chrome.bookmarks.create({parentId, title})
CreateFolder(st, parentId, title) ==
    [ nodes |-> (st.next :> [title |-> title, isLink |-> FALSE]) @@ st.nodes,
      kids  |-> (st.next :> <<>>) @@
                [st.kids EXCEPT ![parentId] = Append(@, st.next)],
      next  |-> st.next + 1 ]

\* chrome.bookmarks.create({parentId, title, url})
CreateLink(st, parentId, title) ==
    [ nodes |-> (st.next :> [title |-> title, isLink |-> TRUE]) @@ st.nodes,
      kids  |-> [st.kids EXCEPT ![parentId] = Append(@, st.next)],
      next  |-> st.next + 1 ]

\* chrome.bookmarks.move(id, {parentId}): the node goes to the end of the
\* destination's children
MoveNode(st, id, parentId) ==
    LET detached == [f \in FolderIds(st) |->
                        SelectSeq(st.kids[f], LAMBDA c : c # id)]
    IN  [st EXCEPT !.kids = [detached EXCEPT ![parentId] = Append(@, id)]]

\* the title ensureFolderPath stores: rawName.trim().replace(/^\/+|\/+$/g, '')
StoredTitle(rawName) == StripTrailing(StripLeading(Trim(rawName), Slash), Slash)

\* findFolder: the first child folder whose canonical key is the name's
findFolder(st, parentId, name) ==
    LET children == GetChildren(st, parentId)
        target   == normalizeFolderName(name)
        hits     == { i \in 1..Len(children) :
                        /\ ~st.nodes[children[i]].isLink
                        /\ normalizeFolderName(st.nodes[children[i]].title) = target }
    IN  IF hits = {} THEN NoNode
        ELSE children[CHOOSE i \in hits : \A j \in hits : i <= j]

\* One iteration of ensureFolderPath's loop.  A walk is a record
\*   st        the store
\*   currentId the folder reached
\*   prev      <<>> for previousNormalized = null, else <<previousNormalized>>
\*   trail     one entry per segment not skipped: the folder, the segment,
\*             its canonical key, and whether the folder was created for it
\* mutant: the loop without its "Category -> Category" guard
EnsureStepNoGuard(w, rawName) ==
    LET normalized == normalizeFolderName(rawName)
        existing   == findFolder(w.st, w.currentId, rawName)
    IN  IF existing # NoNode
        THEN [ st |-> w.st, currentId |-> existing, prev |-> <<normalized>>,
               trail |-> Append(w.trail, [id |-> existing, raw |-> rawName, key |-> normalized,
                                          created |-> FALSE]) ]
        ELSE [ st |-> CreateFolder(w.st, w.currentId, StoredTitle(rawName)),
               currentId |-> w.st.next, prev |-> <<normalized>>,
               trail |-> Append(w.trail, [id |-> w.st.next, raw |-> rawName, key |-> normalized,
                                          created |-> TRUE]) ]

EnsureStep(w, rawName) ==
    LET normalized == normalizeFolderName(rawName)
        existing   == findFolder(w.st, w.currentId, rawName)
    IN  IF w.prev = <<normalized>> THEN w
        ELSE IF existing # NoNode
        THEN [ st |-> w.st, currentId |-> existing, prev |-> <<normalized>>,
               trail |-> Append(w.trail, [id |-> existing, raw |-> rawName, key |-> normalized,
                                          created |-> FALSE]) ]
        ELSE [ st |-> CreateFolder(w.st, w.currentId, StoredTitle(rawName)),
               currentId |-> w.st.next, prev |-> <<normalized>>,
               trail |-> Append(w.trail, [id |-> w.st.next, raw |-> rawName, key |-> normalized,
                                          created |-> TRUE]) ]

RECURSIVE EnsureLoop(_, _)
EnsureLoop(w, path) ==
    IF path = <<>> THEN w ELSE EnsureLoop(EnsureStep(w, Head(path)), Tail(path))

ensureFolderPath(st, path) ==
    EnsureLoop([st |-> st, currentId |-> BookmarksBarId, prev |-> <<>>,
                trail |-> <<>>], path)

CreatedBy(w) == { w.trail[i].id : i \in {j \in 1..Len(w.trail) : w.trail[j].created} }

\* createBookmark(url, title, folderPath)
createBookmark(st, title, folderPath) ==
    LET w == ensureFolderPath(st, sanitizeFolderPath(folderPath))
    IN  [ st |-> CreateLink(w.st, w.currentId, title),
          folderId |-> w.currentId, created |-> CreatedBy(w), node |-> w.st.next ]

\* moveBookmark(bookmarkId, folderPath)
moveBookmark(st, bookmarkId, folderPath) ==
    LET w == ensureFolderPath(st, sanitizeFolderPath(folderPath))
    IN  [ st |-> MoveNode(w.st, bookmarkId, w.currentId),
          folderId |-> w.currentId, created |-> CreatedBy(w), node |-> bookmarkId ]

\* chrome.bookmarks.remove(id) succeeds only for an existing node that is not
\* one of the browser's own containers and has no children
CanRemove(st, id) ==
    /\ id \in NodeIds(st)
    /\ id \notin {0, 1, 2, 3}
    /\ id \in FolderIds(st) => st.kids[id] = <<>>

RemoveNode(st, id) ==
    [ nodes |-> [n \in NodeIds(st) \ {id} |-> st.nodes[n]],
      kids  |-> [f \in FolderIds(st) \ {id} |->
                    SelectSeq(st.kids[f], LAMBDA c : c # id)],
      next  |-> st.next ]

----------------------------------------------------------------------------
(* removeEmptyFolders.  The call in progress is a record
     phase        "running" | "done" | "failed"
     tree         the getTree() snapshot the traversal walks
     stack        the traverseAndRemove activations, innermost last; each is
                  [node, idx, hasChildren], idx the next child to visit
     removedCount
     issued       the ids chrome.bookmarks.remove was called with, in order
     failed       the ids whose removal the store rejected
     returned     traverseAndRemove's result for each folder it finished *)

systemIds == {0, 1, 2, 3}

\* mutant: any child, removed or not, counts as content
AfterChildNoCascade(hasChildren, childRemovedOrEmpty) == TRUE

\* mutant: what the children report is ignored
AfterChildIgnored(hasChildren, childRemovedOrEmpty) == FALSE

\* lines 58-61: a child that reports false leaves content behind
AfterChild(hasChildren, childRemovedOrEmpty) ==
    hasChildren \/ ~childRemovedOrEmpty

\* mutant: the system folders are not spared
RemovableUnguarded(id, hasChildren) == ~hasChildren

\* line 69
Removable(id, hasChildren) == ~hasChildren /\ id \notin systemIds

\* mutant: a rejected removal is reported like a removal
RemoveRejectedAsRemoved(id) == TRUE

\* lines 74-77: the catch block returns false
RemoveRejected(id) == FALSE

\* mutant: a system folder always reports false
KeptSystemNotEmpty(id, hasChildren) == ~hasChildren /\ id \notin systemIds

\* line 80: return !hasChildren, for the folders line 69 did not try to remove
Kept(id, hasChildren) == ~hasChildren

Top(stack) == stack[Len(stack)]
Pop(stack) == SubSeq(stack, 1, Len(stack) - 1)

\* traverseAndRemove(node) returns ret: the caller's loop goes on, or, for the
\* outermost activation, removeEmptyFolders returns removedCount
Return(sw, ret) ==
    LET node == Top(sw.stack).node
        rest == Pop(sw.stack)
        note == [sw EXCEPT !.returned = Append(@, <<node, ret>>)]
    IN  IF rest = <<>>
        THEN [note EXCEPT !.stack = <<>>, !.phase = "done"]
        ELSE [note EXCEPT !.stack =
                [rest EXCEPT ![Len(rest)] =
                    [node |-> @.node, idx |-> @.idx + 1,
                     hasChildren |-> AfterChild(@.hasChildren, ret)]]]

\* const tree = await chrome.bookmarks.getTree(); traverseAndRemove(tree[0])
SweepStart ==
    /\ sweep.phase = "idle"
    /\ sweep' = [ phase |-> "running", tree |-> store,
                  stack |-> <<[node |-> RootId, idx |-> 1, hasChildren |-> FALSE]>>,
                  removedCount |-> 0, issued |-> <<>>, failed |-> {},
                  returned |-> <<>> ]
    /\ UNCHANGED <<sanVars, suspended, walks, pureVars, ensVars, store, calls, clsVars, batch>>

\* getTree() rejects, and so does removeEmptyFolders
SweepGetTreeFails ==
    /\ sweep.phase = "idle"
    /\ sweep' = [phase |-> "failed"]
    /\ UNCHANGED <<sanVars, suspended, walks, pureVars, ensVars, store, calls, clsVars, batch>>

NextChild(sw) == sw.tree.kids[Top(sw.stack).node][Top(sw.stack).idx]
HasNextChild(sw) ==
    /\ sw.phase = "running"
    /\ Top(sw.stack).idx <= Len(sw.tree.kids[Top(sw.stack).node])

\* the child is a bookmark: traverseAndRemove(child) returns false at once
SweepVisitLink ==
    /\ HasNextChild(sweep)
    /\ sweep.tree.nodes[NextChild(sweep)].isLink
    /\ sweep' = [sweep EXCEPT !.stack[Len(sweep.stack)] =
                    [node |-> @.node, idx |-> @.idx + 1,
                     hasChildren |-> AfterChild(@.hasChildren, FALSE)]]
    /\ UNCHANGED <<sanVars, suspended, walks, pureVars, ensVars, store, calls, clsVars, batch>>

\* the child is a folder: traverseAndRemove(child) starts on it
SweepEnterFolder ==
    /\ HasNextChild(sweep)
    /\ ~sweep.tree.nodes[NextChild(sweep)].isLink
    /\ sweep' = [sweep EXCEPT !.stack =
                    Append(@, [node |-> NextChild(sweep), idx |-> 1,
                               hasChildren |-> FALSE])]
    /\ UNCHANGED <<sanVars, suspended, walks, pureVars, ensVars, store, calls, clsVars, batch>>

ChildrenDone(sw) ==
    /\ sw.phase = "running"
    /\ Top(sw.stack).idx > Len(sw.tree.kids[Top(sw.stack).node])

\* chrome.bookmarks.remove(node.id) succeeds
SweepRemoveOk ==
    /\ ChildrenDone(sweep)
    /\ LET f == Top(sweep.stack)
       IN  /\ Removable(f.node, f.hasChildren)
           /\ CanRemove(store, f.node)
           /\ store' = RemoveNode(store, f.node)
           /\ sweep' = Return([sweep EXCEPT !.issued = Append(@, f.node),
                                            !.removedCount = @ + 1], TRUE)
    /\ UNCHANGED <<sanVars, suspended, walks, pureVars, ensVars, calls, clsVars, batch>>

\* chrome.bookmarks.remove(node.id) rejects: caught, logged, false returned
SweepRemoveFails ==
    /\ ChildrenDone(sweep)
    /\ LET f == Top(sweep.stack)
       IN  /\ Removable(f.node, f.hasChildren)
           /\ sweep' = Return([sweep EXCEPT !.issued = Append(@, f.node),
                                            !.failed = @ \cup {f.node}],
                              RemoveRejected(f.node))
    /\ UNCHANGED <<sanVars, suspended, walks, pureVars, ensVars, store, calls, clsVars, batch>>

\* line 80: no removal attempted
SweepKeep ==
    /\ ChildrenDone(sweep)
    /\ LET f == Top(sweep.stack)
       IN  /\ ~Removable(f.node, f.hasChildren)
           /\ sweep' = Return(sweep, Kept(f.node, f.hasChildren))
    /\ UNCHANGED <<sanVars, suspended, walks, pureVars, ensVars, store, calls, clsVars, batch>>

SweepStep ==
    \/ SweepVisitLink
    \/ SweepEnterFolder
    \/ SweepRemoveOk
    \/ SweepRemoveFails
    \/ SweepKeep

----------------------------------------------------------------------------
(* LlmClassifier *)

None == "none"

ProviderTable ==
    [ openai     |-> [name |-> "OpenAI", baseURL |-> "https://api.openai.com/v1",
                      model |-> "gpt-3.5-turbo"],
      moonshot   |-> [name |-> "Moonshot (Kimi)", baseURL |-> "https://api.moonshot.ai/v1",
                      model |-> "kimi-k2-0711-preview"],
      grok       |-> [name |-> "Grok", baseURL |-> "https://api.x.ai/v1",
                      model |-> "grok-beta"],
      openrouter |-> [name |-> "OpenRouter", baseURL |-> "https://openrouter.ai/api/v1",
                      model |-> "openai/gpt-4o-mini"],
      groq       |-> [name |-> "Groq", baseURL |-> "https://api.groq.com/openai/v1",
                      model |-> "llama-3.3-70b-versatile"],
      copilot    |-> [name |-> "GitHub Copilot", baseURL |-> "https://api.githubcopilot.com",
                      model |-> "gpt-4o"] ]

\* A credential is described by what detectProvider reads of it: the longest
\* of the prefixes it tests that the key starts with, the substrings it
\* contains, and whether it is longer than 40 characters.
StartsWith(key, prefix) ==
    \/ key.prefix = prefix
    \/ prefix = "sk-" /\ key.prefix = "sk-or-v1-"

Includes(key, part) ==
    \/ part \in key.parts
    \/ part = "or-v1" /\ key.prefix = "sk-or-v1-"

detectProvider(table, apiKey) ==
    IF StartsWith(apiKey, "gho_") \/ StartsWith(apiKey, "github_pat_")
        THEN table.copilot
    ELSE IF StartsWith(apiKey, "gsk_")
        THEN table.groq
    ELSE IF StartsWith(apiKey, "sk-") /\ ~Includes(apiKey, "kimi")
                /\ ~Includes(apiKey, "or-v1")
        THEN table.openai
    ELSE IF StartsWith(apiKey, "sk-or-v1-") \/ Includes(apiKey, "openrouter")
        THEN table.openrouter
    ELSE IF Includes(apiKey, "kimi") \/ apiKey.long
        THEN table.moonshot
    ELSE IF Includes(apiKey, "grok") \/ StartsWith(apiKey, "xai-")
        THEN table.grok
    ELSE table.openrouter

\* lines 123-130: the profile this call uses, a copy of the table's entry
ResolveProvider(table, fields) ==
    LET baseProvider ==
            IF fields.providerOverride # None
               /\ fields.providerOverride \in DOMAIN table
            THEN table[fields.providerOverride]
            ELSE detectProvider(table, fields.apiKey)
    IN  IF baseProvider.name = "OpenRouter" /\ fields.selectedOpenRouterModel # None
        THEN [baseProvider EXCEPT !.model = fields.selectedOpenRouterModel]
        ELSE baseProvider

KeyOf(table, name) == CHOOSE k \in DOMAIN table : table[k].name = name

\* mutant: the call works on the table's own entry
AliasesTable(provider) == TRUE

\* line 126: provider = { ...baseProvider } is an object of its own
Aliases(provider) == FALSE

\* the table after provider.model = model (lines 129, 293)
AssignModel(table, provider, model) ==
    IF Aliases(provider)
    THEN [table EXCEPT ![KeyOf(table, provider.name)].model = model]
    ELSE table

\* the table after lines 123-130
TableAfterResolve(table, fields) ==
    LET provider == ResolveProvider(table, fields)
    IN  IF provider.name = "OpenRouter" /\ fields.selectedOpenRouterModel # None
        THEN AssignModel(table, provider, fields.selectedOpenRouterModel)
        ELSE table

\* JSON values: [k |-> "absent"], [k |-> "null"], [k |-> "str", v |-> chars],
\* [k |-> "arr", v |-> sequence]
Absent == [k |-> "absent"]
Null == [k |-> "null"]
Str(v) == [k |-> "str", v |-> v]
Arr(v) == [k |-> "arr", v |-> v]

\* JavaScript truthiness of a JSON value
Truthy(j) == j.k = "arr" \/ (j.k = "str" /\ j.v # <<>>)

MaxDepth == 3

Min(a, b) == IF a < b THEN a ELSE b

\* mutant: every element is kept
KeepAll(q, n) == q

\* Array.prototype.slice(0, n)
Slice(q, n) == SubSeq(q, 1, Min(n, Len(q)))

\* parsed.tags || []
TagsOrEmpty(tags) == IF Truthy(tags) THEN tags ELSE Arr(<<>>)

\* an error: its class, its HTTP status (0 when it has none), its message
Failure(class, status, message) ==
    [ok |-> FALSE, error |-> class, status |-> status, message |-> message]

\* lines 305-317: from the completion's text to the result or the error thrown.
\* A completion is [kind |-> "empty"], [kind |-> "garbage"] (no JSON once the
\* code fences are off), or [kind |-> "json", fenced, value] with value Null
\* or an object [folderPath, tags].
ParseCompletion(content) ==
    IF content.kind = "empty"
        THEN Failure("Error", 0, "No response content received from AI provider")
    ELSE IF content.kind = "garbage"
        THEN Failure("Error", 0, "SyntaxError")
    ELSE IF content.value = Null
        THEN Failure("Error", 0, "TypeError")
    ELSE IF ~Truthy(content.value.folderPath) \/ content.value.folderPath.k # "arr"
        THEN Failure("Error", 0, "Invalid response format: missing folderPath")
    ELSE [ ok |-> TRUE,
           folderPath |-> Slice(content.value.folderPath.v, MaxDepth),
           tags |-> TagsOrEmpty(content.value.tags) ]

\* lines 318-333: what classifyUrl throws for an error caught at the outer catch
Message(text, status, cause) == [text |-> text, status |-> status, cause |-> cause]

\* mutant: every error is reported as a failed classification
TranslateUntyped(err) == Message("Classification failed", 0, err.message)

Translate(err) ==
    IF err.error = "APIError"
    THEN IF err.status = 401
            THEN Message("Invalid API key. Please check your credentials.", 0, "")
         ELSE IF err.status = 429
            THEN Message("Rate limit exceeded. Please try again later.", 0, "")
         ELSE IF err.status = 403
            THEN Message("API access forbidden. Check your API key permissions.", 0, "")
         ELSE Message("API Error", err.status, err.message)
    ELSE Message("Classification failed", 0, err.message)

NoProvider == [name |-> None, baseURL |-> None, model |-> None]
NoContent == [kind |-> None]
NoResult == [folderPath |-> <<>>, tags |-> Absent]

\* statuses: the outcome of each completion request, 200 for an answer and 0
\* for a failure without a status
\* prefReads, prefWrites: the reads and writes of the persisted preference and
\* model choice this call has issued
NewCall ==
    [ phase |-> "loadPreferences", calls |-> 0, provider |-> NoProvider,
      retried |-> FALSE, completions |-> 0, discoveries |-> 0,
      tokenExchanges |-> 0, prefReads |-> 0, prefWrites |-> 0,
      statuses |-> <<>>, content |-> NoContent,
      result |-> NoResult, thrown |-> Message("", 0, "") ]

Ended(c) == c.phase \in {"idle", "returned", "threw"}

Throw(c, message) == [c EXCEPT !.phase = "threw", !.thrown = message]

\* the code after the inner try: parse, validate, return or throw
Finish(c, content) ==
    LET r == ParseCompletion(content)
        kept == [c EXCEPT !.content = content]
    IN  IF r.ok
        THEN [kept EXCEPT !.phase = "returned",
                          !.result = [folderPath |-> r.folderPath, tags |-> r.tags]]
        ELSE Throw(kept, Translate(r))

\* mutant: the precondition is not checked
MissingKeyUnchecked(key) == FALSE

\* line 116 after the trim of line 54: !this.apiKey
MissingKey(key) == key.absent \/ key.blank

\* lines 114-118: loadApiKey, then the precondition
ClsCall ==
    /\ Ended(cls)
    /\ cls.calls < MaxClassifyCalls
    /\ inst' = [inst EXCEPT !.apiKey = secret]
    /\ cls' = IF MissingKey(secret)
              THEN [Throw(NewCall,
                          Message("API key not configured. Please save your API key first.",
                                  0, ""))
                        EXCEPT !.calls = cls.calls + 1]
              ELSE [NewCall EXCEPT !.calls = cls.calls + 1]
    /\ UNCHANGED <<sanVars, suspended, walks, pureVars, ensVars, bmVars, secret, prefs, providers>>

\* after the preferences are (or are not) loaded: lines 123-138
AfterPreferences(fields) ==
    LET provider == ResolveProvider(providers, fields)
    IN  [cls EXCEPT !.provider = provider,
                    !.phase = IF provider.name = "GitHub Copilot"
                              THEN "token" ELSE "attempt"]

\* loadPreferences reads both persisted values
ClsLoadPreferences ==
    /\ cls.phase = "loadPreferences"
    /\ inst' = [inst EXCEPT !.providerOverride = prefs.provider,
                            !.selectedOpenRouterModel = prefs.model]
    /\ cls' = [AfterPreferences(inst') EXCEPT !.prefReads = 2]
    /\ providers' = TableAfterResolve(providers, inst')
    /\ UNCHANGED <<sanVars, suspended, walks, pureVars, ensVars, bmVars, secret, prefs>>

\* loadPreferences fails at its first or at its second read and warns: the
\* field not assigned keeps the value of the last call
ClsLoadPreferencesFails ==
    /\ cls.phase = "loadPreferences"
    /\ \/ /\ inst' = inst
          /\ cls' = [AfterPreferences(inst') EXCEPT !.prefReads = 1]
       \/ /\ inst' = [inst EXCEPT !.providerOverride = prefs.provider]
          /\ cls' = [AfterPreferences(inst') EXCEPT !.prefReads = 2]
    /\ providers' = TableAfterResolve(providers, inst')
    /\ UNCHANGED <<sanVars, suspended, walks, pureVars, ensVars, bmVars, secret, prefs>>

\* getGitHubCopilotToken
ClsToken ==
    /\ cls.phase = "token"
    /\ \E ok \in BOOLEAN :
          cls' = IF ok
                 THEN [cls EXCEPT !.phase = "attempt", !.tokenExchanges = @ + 1]
                 ELSE [Throw(cls, Message("Failed to authenticate with GitHub Copilot.",
                                          0, ""))
                          EXCEPT !.tokenExchanges = @ + 1]
    /\ UNCHANGED <<sanVars, suspended, walks, pureVars, ensVars, bmVars, secret, prefs, providers, inst>>

Statuses == {401, 403, 404, 429, 500}

\* what attemptClassification can throw: an APIError with a status, or
\* anything else (no choices in the completion, a transport failure)
AttemptErrors ==
    {Failure("APIError", status, "") : status \in Statuses}
        \cup {Failure("Error", 0, "transport")}

ArraysUpTo(n) == {Arr(q) : q \in SeqsUpTo({"x", "y"}, n)}

Completions ==
    { [kind |-> "empty"], [kind |-> "garbage"],
      [kind |-> "json", fenced |-> FALSE, value |-> Null] }
    \cup { [kind |-> "json", fenced |-> fenced,
            value |-> [folderPath |-> folderPath, tags |-> tags]] :
            fenced \in BOOLEAN,
            folderPath \in {Absent, Null, Str(<<"x">>)} \cup ArraysUpTo(MaxRespLen),
            tags \in {Absent, Null, Str(<<>>), Arr(<<>>), Arr(<<"t">>)} }

\* mutant: a 404 of any provider family is retried
FallbackOnAny404(c, err) ==
    /\ err.error = "APIError"
    /\ err.status = 404
    /\ ~c.retried

\* mutant: any failed request of the OpenRouter family is retried
FallbackOnAnyError(c, err) ==
    /\ c.provider.name = "OpenRouter"
    /\ ~c.retried

\* line 286
FallbackEligible(c, err) ==
    /\ c.provider.name = "OpenRouter"
    /\ err.error = "APIError"
    /\ err.status = 404
    /\ ~c.retried


\* the completion request answers
ClsAttemptReturns ==
    /\ cls.phase = "attempt"
    /\ \E content \in Completions :
          cls' = Finish([cls EXCEPT !.completions = @ + 1,
                                    !.statuses = Append(@, 200)], content)
    /\ UNCHANGED <<sanVars, suspended, walks, pureVars, ensVars, bmVars, secret, prefs, providers, inst>>

Note(c, err) ==
    [c EXCEPT !.completions = @ + 1,
              !.statuses = Append(@, err.status)]

\* the completion request fails: lines 285-302
ClsAttemptThrows ==
    /\ cls.phase = "attempt"
    /\ \E err \in AttemptErrors :
          cls' = IF FallbackEligible(cls, err)
                 THEN [Note(cls, err) EXCEPT !.phase = "fallback", !.retried = TRUE]
                 ELSE Throw(Note(cls, err), Translate(err))
    /\ UNCHANGED <<sanVars, suspended, walks, pureVars, ensVars, bmVars, secret, prefs, providers, inst>>

FallbackModel == "fallback/model"
UserModel == "user/model"

\* lines 289-299: clear the persisted choice, ask for a default model, and
\* either persist it and go on to the second request or throw
ClsFallback ==
    /\ cls.phase = "fallback"
    /\ \/ /\ cls' = Throw([cls EXCEPT !.prefWrites = @ + 1],
                          Translate(Failure("Error", 0, "clearSelectedOpenRouterModel")))
          /\ UNCHANGED prefs
          /\ providers' = providers
       \/ /\ cls' = Throw([cls EXCEPT !.discoveries = @ + 1, !.prefWrites = @ + 1],
                          Translate(Failure("Error", 0, "chooseDefaultOpenRouterModel")))
          /\ prefs' = [prefs EXCEPT !.model = None]
          /\ providers' = providers
       \/ /\ cls' = Throw([cls EXCEPT !.discoveries = @ + 1, !.prefWrites = @ + 1],
                          Translate(Failure("Error", 0, "No fallback OpenRouter model available.")))
          /\ prefs' = [prefs EXCEPT !.model = None]
          /\ providers' = providers
       \/ /\ cls' = Throw([cls EXCEPT !.discoveries = @ + 1, !.prefWrites = @ + 2,
                                      !.provider.model = FallbackModel],
                          Translate(Failure("Error", 0, "setSelectedOpenRouterModel")))
          /\ prefs' = [prefs EXCEPT !.model = None]
          /\ providers' = AssignModel(providers, cls.provider, FallbackModel)
       \/ /\ cls' = [cls EXCEPT !.discoveries = @ + 1, !.prefWrites = @ + 2,
                                !.provider.model = FallbackModel,
                                !.phase = "retry"]
          /\ prefs' = [prefs EXCEPT !.model = FallbackModel]
          /\ providers' = AssignModel(providers, cls.provider, FallbackModel)
    /\ UNCHANGED <<sanVars, suspended, walks, pureVars, ensVars, bmVars, secret, inst>>

\* the second completion request answers
ClsRetryReturns ==
    /\ cls.phase = "retry"
    /\ \E content \in Completions :
          cls' = Finish([cls EXCEPT !.completions = @ + 1,
                                    !.statuses = Append(@, 200)], content)
    /\ UNCHANGED <<sanVars, suspended, walks, pureVars, ensVars, bmVars, secret, prefs, providers, inst>>

\* the second completion request fails: the error leaves the inner catch as
\* it is and reaches the outer one
ClsRetryThrows ==
    /\ cls.phase = "retry"
    /\ \E err \in AttemptErrors :
          cls' = Throw(Note(cls, err), Translate(err))
    /\ UNCHANGED <<sanVars, suspended, walks, pureVars, ensVars, bmVars, secret, prefs, providers, inst>>

ClsStep ==
    \/ ClsCall
    \/ ClsLoadPreferences
    \/ ClsLoadPreferencesFails
    \/ ClsToken
    \/ ClsAttemptReturns
    \/ ClsAttemptThrows
    \/ ClsFallback
    \/ ClsRetryReturns
    \/ ClsRetryThrows

Key(prefix, parts, long) ==
    [prefix |-> prefix, parts |-> parts, long |-> long, blank |-> FALSE,
     absent |-> FALSE]

\* SecurityManager.getApiKey() has nothing / has only whitespace
NoKey == [prefix |-> "other", parts |-> {}, long |-> FALSE, blank |-> TRUE,
          absent |-> TRUE]
BlankKey == [NoKey EXCEPT !.absent = FALSE]

\* one credential for each branch of detectProvider, a whitespace-only one, none
Credentials ==
    { NoKey, BlankKey,
      Key("gho_", {}, FALSE), Key("github_pat_", {}, TRUE),
      Key("gsk_", {}, TRUE),
      Key("sk-", {}, TRUE),
      Key("sk-or-v1-", {}, TRUE),
      Key("sk-", {"kimi"}, FALSE),
      Key("other", {"openrouter"}, FALSE),
      Key("other", {}, TRUE),
      Key("xai-", {}, FALSE), Key("xai-", {}, TRUE),
      Key("other", {"grok"}, FALSE),
      Key("other", {}, FALSE) }

Preferences ==
    [ provider : {None, "auto"} \cup DOMAIN ProviderTable,
      model    : {None, UserModel} ]

ClsUnused ==
    /\ secret = NoKey
    /\ prefs = [provider |-> None, model |-> None]
    /\ providers = ProviderTable
    /\ inst = [apiKey |-> NoKey, providerOverride |-> None,
               selectedOpenRouterModel |-> None]
    /\ cls = [phase |-> "idle", calls |-> 0]

----------------------------------------------------------------------------
(* BackgroundService.organizeAllBookmarks.  The run is a record
     phase          where the run is: "getAllBookmarks", "getExistingFolders",
                    "classify", "move", "delay", "sweep", "complete", "error"
     bookmarks      the getAllBookmarks() snapshot
     existingFolders the getExistingFolders() list
     listed         getExistingFolders() read the store (it returns [] when
                    the read fails)
     i              the position in bookmarks of the item in hand
     classification the folderPath classifyUrl returned for it
     processed
     attempted      the ids classifyUrl was called for, in order
     failed         the positions whose classification or move threw
     sent           the notifications sent, in order *)

RECURSIVE Traverse(_, _)
\* getAllBookmarks' traverse(nodes): the links, parents before children
Traverse(st, nodes) ==
    IF nodes = <<>> THEN <<>>
    ELSE LET node == Head(nodes)
         IN  (IF st.nodes[node].isLink THEN <<node>> ELSE <<>>)
                 \o (IF node \in FolderIds(st) THEN Traverse(st, st.kids[node]) ELSE <<>>)
                 \o Traverse(st, Tail(nodes))

getAllBookmarks(st) == Traverse(st, <<RootId>>)

\* parentPath ? `${parentPath}/${node.title}` : node.title
JoinPath(parentPath, title) ==
    IF parentPath # <<>> THEN parentPath \o <<"/">> \o title ELSE title

RECURSIVE FolderPaths(_, _, _)
\* getExistingFolders' traverse(nodes, parentPath)
FolderPaths(st, nodes, parentPath) ==
    IF nodes = <<>> THEN <<>>
    ELSE LET node == Head(nodes)
             currentPath == JoinPath(parentPath, st.nodes[node].title)
         IN  (IF st.nodes[node].isLink THEN <<>>
              ELSE <<currentPath>> \o FolderPaths(st, st.kids[node], currentPath))
                 \o FolderPaths(st, Tail(nodes), parentPath)

getExistingFolders(st) == FolderPaths(st, st.kids[BookmarksBarId], <<>>)

Notify(b, message) == [b EXCEPT !.sent = Append(@, message)]

\* lines 103-108: the outer catch
BatchFails(b) == Notify([b EXCEPT !.phase = "error"], [action |-> "ORGANIZE_ERROR"])

\* mutant: an item's failure is not caught at the item
AbortOnItemFailure(b) == BatchFails([b EXCEPT !.failed = @ \cup {b.i}])

\* mutant: a failed item is counted as processed
CountFailedItem(b) ==
    [b EXCEPT !.failed = @ \cup {b.i}, !.processed = @ + 1, !.phase = "delay"]

\* lines 86-88: the item's failure is logged and the loop goes on to the delay
AfterItemFailure(b) == [b EXCEPT !.failed = @ \cup {b.i}, !.phase = "delay"]

\* mutant: the sweep's failure is swallowed and the run reports completion
SweepFailureSwallowed(b) ==
    Notify([b EXCEPT !.phase = "complete"],
           [action |-> "ORGANIZE_COMPLETE", processed |-> b.processed,
            total |-> Len(b.bookmarks), removedFolders |-> 0])

\* line 95 is inside the outer try only: its rejection reaches line 103
AfterSweepFailure(b) == BatchFails(b)

\* ORGANIZE_ALL_BOOKMARKS: organizeAllBookmarks() starts
BatchStart ==
    /\ batch.phase = "idle"
    /\ batch' = [ phase |-> "getAllBookmarks", bookmarks |-> <<>>,
                  existingFolders |-> <<>>, listed |-> FALSE, i |-> 0,
                  classification |-> <<>>,
                  processed |-> 0, attempted |-> <<>>, failed |-> {},
                  sent |-> <<>> ]
    /\ UNCHANGED <<sanVars, suspended, walks, pureVars, ensVars, store, calls, sweep, clsVars>>

\* line 67
BatchGetAllBookmarks ==
    /\ batch.phase = "getAllBookmarks"
    /\ \/ batch' = [batch EXCEPT !.bookmarks = getAllBookmarks(store),
                                  !.phase = "getExistingFolders"]
       \/ batch' = BatchFails(batch)
    /\ UNCHANGED <<sanVars, suspended, walks, pureVars, ensVars, store, calls, sweep, clsVars>>

\* mutant: the loop stops one item early
NextItemSweepsEarly(b) ==
    IF b.i + 1 < Len(b.bookmarks)
    THEN [b EXCEPT !.i = @ + 1, !.phase = "classify"]
    ELSE [b EXCEPT !.phase = "sweep"]

\* the for loop takes the next bookmark, or is over
NextItem(b) ==
    IF b.i < Len(b.bookmarks)
    THEN [b EXCEPT !.i = @ + 1, !.phase = "classify"]
    ELSE [b EXCEPT !.phase = "sweep"]

\* line 68: getExistingFolders catches its own failure and returns []
BatchGetExistingFolders ==
    /\ batch.phase = "getExistingFolders"
    /\ \/ batch' = NextItem([batch EXCEPT
                                !.existingFolders = getExistingFolders(store),
                                !.listed = TRUE])
       \/ batch' = NextItem([batch EXCEPT !.existingFolders = <<>>])
    /\ UNCHANGED <<sanVars, suspended, walks, pureVars, ensVars, store, calls, sweep, clsVars>>

\* the folder paths a classification can carry
BatchPaths == { << <<"a">> >>, << <<"*", "a">>, <<"b">> >> }

\* line 77: classifyUrl returns a classification
BatchClassifyReturns ==
    /\ batch.phase = "classify"
    /\ \E folderPath \in BatchPaths :
          batch' = [batch EXCEPT !.attempted = Append(@, batch.bookmarks[batch.i]),
                                 !.classification = folderPath,
                                 !.phase = "move"]
    /\ UNCHANGED <<sanVars, suspended, walks, pureVars, ensVars, store, calls, sweep, clsVars>>

\* line 77: classifyUrl throws
BatchClassifyThrows ==
    /\ batch.phase = "classify"
    /\ batch' = AfterItemFailure(
                    [batch EXCEPT !.attempted = Append(@, batch.bookmarks[batch.i])])
    /\ UNCHANGED <<sanVars, suspended, walks, pureVars, ensVars, store, calls, sweep, clsVars>>

\* lines 78-84: the bookmark is moved and the progress is sent
BatchMoveReturns ==
    /\ batch.phase = "move"
    /\ batch.bookmarks[batch.i] \in NodeIds(store)
    /\ LET r == moveBookmark(store, batch.bookmarks[batch.i], batch.classification)
       IN  /\ store' = r.st
           /\ batch' = Notify([batch EXCEPT !.processed = @ + 1, !.phase = "delay"],
                               [action |-> "ORGANIZE_PROGRESS",
                                processed |-> batch.processed + 1,
                                total |-> Len(batch.bookmarks)])
    /\ UNCHANGED <<sanVars, suspended, walks, pureVars, ensVars, calls, sweep, clsVars>>

\* line 78: moveBookmark throws, before it touched the store or at the move
\* itself, when the folders are there already
BatchMoveThrows ==
    /\ batch.phase = "move"
    /\ \/ store' = store
       \/ store' = ensureFolderPath(store, sanitizeFolderPath(batch.classification)).st
    /\ batch' = AfterItemFailure(batch)
    /\ UNCHANGED <<sanVars, suspended, walks, pureVars, ensVars, calls, sweep, clsVars>>

\* line 91: the delay is over
BatchDelay ==
    /\ batch.phase = "delay"
    /\ batch' = NextItem(batch)
    /\ UNCHANGED <<sanVars, suspended, walks, pureVars, ensVars, store, calls, sweep, clsVars>>

\* line 95: removeEmptyFolders() is called
BatchSweep ==
    /\ batch.phase = "sweep"
    /\ SweepStart \/ SweepGetTreeFails

\* lines 96-101: removeEmptyFolders returned
BatchComplete ==
    /\ batch.phase = "sweep"
    /\ sweep.phase = "done"
    /\ batch' = Notify([batch EXCEPT !.phase = "complete"],
                        [action |-> "ORGANIZE_COMPLETE",
                         processed |-> batch.processed,
                         total |-> Len(batch.bookmarks),
                         removedFolders |-> sweep.removedCount])
    /\ UNCHANGED <<sanVars, suspended, walks, pureVars, ensVars, store, calls, sweep, clsVars>>

\* removeEmptyFolders threw: lines 103-108
BatchSweepThrew ==
    /\ batch.phase = "sweep"
    /\ sweep.phase = "failed"
    /\ batch' = AfterSweepFailure(batch)
    /\ UNCHANGED <<sanVars, suspended, walks, pureVars, ensVars, store, calls, sweep, clsVars>>

BatchStep ==
    \/ BatchStart
    \/ BatchGetAllBookmarks
    \/ BatchGetExistingFolders
    \/ BatchClassifyReturns
    \/ BatchClassifyThrows
    \/ BatchMoveReturns
    \/ BatchMoveThrows
    \/ BatchDelay
    \/ BatchSweep
    \/ SweepStep
    \/ BatchComplete
    \/ BatchSweepThrew

----------------------------------------------------------------------------
(* Stores the browser can hold *)

LinkTitle == <<"a">>

\* the root with the three containers the browser predefines, and one link
RootsOnly ==
    [ nodes |-> (0 :> [title |-> <<>>, isLink |-> FALSE]) @@
                (1 :> [title |-> <<"b", "a", "r">>, isLink |-> FALSE]) @@
                (2 :> [title |-> <<"o", "t", "h", "e", "r">>, isLink |-> FALSE]) @@
                (3 :> [title |-> <<"m", "o", "b", "i", "l", "e">>, isLink |-> FALSE]) @@
                (4 :> [title |-> LinkTitle, isLink |-> TRUE]),
      kids  |-> (0 :> <<1, 2, 3>>) @@ (1 :> <<4>>) @@ (2 :> <<>>) @@ (3 :> <<>>),
      next  |-> 5 ]

\* a decorated folder "*a" holding a folder "b", beside the link
WithFolders == CreateFolder(CreateFolder(RootsOnly, 1, <<"*", "a">>), 5, <<"b">>)

InitStores == {RootsOnly, WithFolders}

\* the three containers alone
BareRoots ==
    [ nodes |-> [n \in {0, 1, 2, 3} |-> RootsOnly.nodes[n]],
      kids  |-> (0 :> <<1, 2, 3>>) @@ (1 :> <<>>) @@ (2 :> <<>>) @@ (3 :> <<>>),
      next  |-> 4 ]

RECURSIVE Grow(_, _)
\* every store got from st by creating up to n more folders and links
Grow(st, n) ==
    IF n = 0 THEN {st}
    ELSE {st} \cup UNION { Grow(CreateFolder(st, p, <<"a">>), n - 1)
                              \cup Grow(CreateLink(st, p, LinkTitle), n - 1) :
                           p \in FolderIds(st) \ {RootId} }

Idle == [phase |-> "idle"]

----------------------------------------------------------------------------
(* sanitizeFolderPath applied to every bounded path *)

InitSanitize ==
    /\ inPath \in SeqsUpTo(Labels, MaxPathLen)
    /\ outPath = <<>>
    /\ spc = "ready"
    /\ store = RootsOnly
    /\ ensIn = Idle
    /\ ensOut = Idle
    /\ calls = <<>>
    /\ sweep = Idle
    /\ walks = <<>>
    /\ detected = Idle
    /\ variants = Idle
    /\ ClsUnused
    /\ batch = Idle
    /\ suspended = <<>>

ApplySanitize ==
    /\ spc = "ready"
    /\ outPath' = sanitizeFolderPath(inPath)
    /\ spc' = "done"
    /\ UNCHANGED <<inPath, store, ensVars, walks, pureVars, calls, sweep, clsVars, batch,
                   suspended>>

NextSanitize == ApplySanitize

SpecSanitize == InitSanitize /\ [][NextSanitize]_vars

----------------------------------------------------------------------------
(* ensureFolderPath applied to every bounded path, sanitized or not *)

InitEnsure ==
    /\ inPath = <<>> /\ outPath = <<>> /\ spc = "idle"
    /\ store \in InitStores
    /\ \E path \in SeqsUpTo(Labels, MaxEnsureLen) :
          ensIn = [phase |-> "ready", st |-> store, path |-> path]
    /\ ensOut = Idle
    /\ calls = <<>>
    /\ sweep = Idle
    /\ walks = <<>>
    /\ detected = Idle
    /\ variants = Idle
    /\ ClsUnused
    /\ batch = Idle
    /\ suspended = <<>>

ApplyEnsure ==
    /\ ensIn.phase = "ready" /\ ensOut.phase = "idle"
    /\ LET w == ensureFolderPath(store, ensIn.path)
       IN  /\ store' = w.st
           /\ ensOut' = [phase |-> "done", id |-> w.currentId, trail |-> w.trail]
    /\ UNCHANGED <<sanVars, suspended, walks, pureVars, ensIn, calls, sweep, clsVars, batch>>

NextEnsure == ApplyEnsure

SpecEnsure == InitEnsure /\ [][NextEnsure]_vars

----------------------------------------------------------------------------
(* Sequential createBookmark / moveBookmark calls *)

Links(st) == {n \in NodeIds(st) : st.nodes[n].isLink}

InitResolve ==
    /\ inPath = <<>> /\ outPath = <<>> /\ spc = "idle"
    /\ store \in InitStores
    /\ ensIn = Idle /\ ensOut = Idle
    /\ calls = <<>>
    /\ sweep = Idle
    /\ walks = <<>>
    /\ detected = Idle
    /\ variants = Idle
    /\ ClsUnused
    /\ batch = Idle
    /\ suspended = <<>>

CallCreateBookmark ==
    /\ Len(calls) < MaxCalls
    /\ \E path \in SeqsUpTo(Labels, MaxCallLen) :
          LET r == createBookmark(store, LinkTitle, path)
          IN  /\ store' = r.st
              /\ calls' = Append(calls, [op |-> "create", path |-> path,
                                         folderId |-> r.folderId,
                                         created |-> r.created])
    /\ UNCHANGED <<sanVars, suspended, walks, pureVars, ensVars, sweep, clsVars, batch>>

CallMoveBookmark ==
    /\ Len(calls) < MaxCalls
    /\ \E path \in SeqsUpTo(Labels, MaxCallLen), bookmarkId \in Links(store) :
          LET r == moveBookmark(store, bookmarkId, path)
          IN  /\ store' = r.st
              /\ calls' = Append(calls, [op |-> "move", path |-> path,
                                         folderId |-> r.folderId,
                                         created |-> r.created])
    /\ UNCHANGED <<sanVars, suspended, walks, pureVars, ensVars, sweep, clsVars, batch>>

NextResolve == CallCreateBookmark \/ CallMoveBookmark

SpecResolve == InitResolve /\ [][NextResolve]_vars

----------------------------------------------------------------------------
(* removeEmptyFolders over every bounded tree, with every pattern of
   rejected removals *)

InitSweep ==
    /\ inPath = <<>> /\ outPath = <<>> /\ spc = "idle"
    /\ store \in Grow(BareRoots, MaxSweepNodes)
    /\ ensIn = Idle /\ ensOut = Idle
    /\ calls = <<>>
    /\ sweep = Idle
    /\ walks = <<>>
    /\ detected = Idle
    /\ variants = Idle
    /\ ClsUnused
    /\ batch = Idle
    /\ suspended = <<>>

NextSweep == SweepStart \/ SweepGetTreeFails \/ SweepStep

SpecSweep == InitSweep /\ [][NextSweep]_vars

----------------------------------------------------------------------------
(* classifyUrl, called up to MaxClassifyCalls times on one LlmClassifier *)

InitClassify ==
    /\ inPath = <<>> /\ outPath = <<>> /\ spc = "idle"
    /\ store = RootsOnly
    /\ ensIn = Idle /\ ensOut = Idle
    /\ calls = <<>>
    /\ sweep = Idle
    /\ walks = <<>>
    /\ detected = Idle
    /\ variants = Idle
    /\ secret \in Credentials
    /\ prefs \in Preferences
    /\ providers = ProviderTable
    /\ inst = [apiKey |-> NoKey, providerOverride |-> None,
               selectedOpenRouterModel |-> None]
    /\ cls = [phase |-> "idle", calls |-> 0]
    /\ batch = Idle
    /\ suspended = <<>>

NextClassify == ClsStep

SpecClassify == InitClassify /\ [][NextClassify]_vars

----------------------------------------------------------------------------
(* One organizeAllBookmarks run on every bounded store *)

InitBatch ==
    /\ inPath = <<>> /\ outPath = <<>> /\ spc = "idle"
    /\ store \in Grow(BareRoots, MaxBatchNodes)
    /\ ensIn = Idle /\ ensOut = Idle
    /\ calls = <<>>
    /\ sweep = Idle
    /\ walks = <<>>
    /\ detected = Idle
    /\ variants = Idle
    /\ ClsUnused
    /\ batch = Idle
    /\ suspended = <<>>

NextBatch == BatchStep

SpecBatch == InitBatch /\ [][NextBatch]_vars

----------------------------------------------------------------------------
(* C1, C2 *)

\* C1: two calls with the same path, one right after the other, resolve to the
\* same folder id, and the second creates no folder.
C1_IdempotentResolution ==
    \A k \in 1..(Len(calls) - 1) :
        calls[k].path = calls[k + 1].path =>
            /\ calls[k + 1].folderId = calls[k].folderId
            /\ calls[k + 1].created = {}

KeysOf(path) == [i \in 1..Len(path) |-> normalizeFolderName(path[i])]

NoDuplicateSiblings(st) ==
    \A p \in FolderIds(st) :
        \A i, j \in 1..Len(st.kids[p]) :
            ( /\ i # j
              /\ ~st.nodes[st.kids[p][i]].isLink
              /\ ~st.nodes[st.kids[p][j]].isLink )
            => normalizeFolderName(st.nodes[st.kids[p][i]].title)
                 # normalizeFolderName(st.nodes[st.kids[p][j]].title)

\* C2: after any sequence of sequential calls no folder has two child folders
\* with the same canonical key, and calls whose paths have the same canonical
\* keys resolve to the same folder id.
C2_OneConceptOneFolder ==
    /\ NoDuplicateSiblings(store)
    /\ \A j, k \in 1..Len(calls) :
          KeysOf(sanitizeFolderPath(calls[j].path))
              = KeysOf(sanitizeFolderPath(calls[k].path))
          => calls[j].folderId = calls[k].folderId

----------------------------------------------------------------------------
(* C3, C4 *)

\* C3: removeEmptyFolders never calls remove on a system root ('0'..'3'), and
\* the four roots stay in the store, whatever the tree and whichever removals
\* the store rejects.
C3_SystemRootsNeverDeleted ==
    sweep.phase \in {"running", "done"} =>
        /\ \A i \in 1..Len(sweep.issued) : sweep.issued[i] \notin systemIds
        /\ systemIds \subseteq NodeIds(store)

\* the pass is over; root '1' lost all its children in it and root '2' never
\* had any
C3_Witness ==
    /\ sweep.phase = "done"
    /\ sweep.tree.kids[1] # <<>>
    /\ store.kids[1] = <<>>
    /\ sweep.tree.kids[2] = <<>>
    /\ <<1, TRUE>> \in SeqToSet(sweep.returned)

RECURSIVE LinkFree(_, _)
\* the subtree of n holds no link
LinkFree(st, n) ==
    /\ ~st.nodes[n].isLink
    /\ \A c \in SeqToSet(st.kids[n]) : LinkFree(st, c)

ChildFolders(st, n) == {c \in SeqToSet(st.kids[n]) : ~st.nodes[c].isLink}

\* C4: when no removal is rejected, one pass deletes exactly the non-system
\* folders whose subtree holds no link, each after all of its child folders,
\* and returns the number of folders that left the store.
C4_CascadingPostOrder ==
    (sweep.phase = "done" /\ sweep.failed = {}) =>
        /\ SeqToSet(sweep.issued)
             = {n \in NodeIds(sweep.tree) \ systemIds : LinkFree(sweep.tree, n)}
        /\ NodeIds(store) = NodeIds(sweep.tree) \ SeqToSet(sweep.issued)
        /\ \A i \in 1..Len(sweep.issued) :
              \A c \in ChildFolders(sweep.tree, sweep.issued[i]) :
                  \E j \in 1..(i - 1) : sweep.issued[j] = c
        /\ sweep.removedCount
             = Cardinality(NodeIds(sweep.tree)) - Cardinality(NodeIds(store))

\* the spec's example: root '1' -> 4 -> 5 with 5 an empty leaf; 5 goes, then 4
C4_Witness ==
    /\ sweep.phase = "done"
    /\ sweep.failed = {}
    /\ sweep.tree.kids[1] = <<4>>
    /\ 4 \in FolderIds(sweep.tree)
    /\ sweep.tree.kids[4] = <<5>>
    /\ sweep.issued = <<5, 4>>
    /\ sweep.removedCount = 2
    /\ store.kids[1] = <<>>

----------------------------------------------------------------------------
(* C5, C6 *)

\* C5: one classifyUrl call issues at most two completion requests and at most
\* one model-discovery request, and a second completion request only after
\* the first came back with status 404.
C5_BoundedRetry ==
    cls.phase # "idle" =>
        /\ cls.completions <= 2
        /\ cls.discoveries <= 1
        /\ Len(cls.statuses) = cls.completions
        /\ cls.completions = 2 => cls.statuses[1] = 404

\* a call that took the fallback path and got its answer from the second request
C5_Witness ==
    /\ cls.phase = "returned"
    /\ cls.completions = 2
    /\ cls.discoveries = 1
    /\ cls.statuses = <<404, 200>>

BothNotFound ==
    /\ cls.phase \in {"returned", "threw"}
    /\ cls.provider.name = "OpenRouter"
    /\ cls.statuses = <<404, 404>>

\* C6 as claimed: with OpenRouter, a 404 on the first and on the fallback
\* request means one fallback attempt and then the "no fallback model
\* available" error.
C6_AsClaimed ==
    BothNotFound =>
        /\ cls.discoveries = 1
        /\ cls.completions = 2
        /\ cls.thrown.cause = "No fallback OpenRouter model available."

\* C6 amended: with OpenRouter, a 404 on the first and on the fallback request
\* means one fallback attempt (one discovery, two completion requests) and
\* then the API error of status 404; the "no fallback model available" error
\* ends only calls whose discovery gave no model, after a single request.
C6_FallbackOnceThenApiError ==
    /\ BothNotFound =>
          /\ cls.phase = "threw"
          /\ cls.discoveries = 1
          /\ cls.completions = 2
          /\ cls.thrown = Message("API Error", 404, "")
    /\ ( /\ cls.phase = "threw"
         /\ cls.thrown.cause = "No fallback OpenRouter model available." )
       => ( /\ cls.statuses = <<404>>
            /\ cls.discoveries = 1
            /\ cls.thrown.text = "Classification failed" )

C6_Witness ==
    /\ BothNotFound
    /\ cls.phase = "threw"
    /\ cls.retried
    /\ cls.provider.model = FallbackModel

----------------------------------------------------------------------------
(* C9 *)

ParsedWithPath ==
    /\ cls.phase \in {"returned", "threw"}
    /\ cls.content.kind = "json"
    /\ cls.content.value # Null
    /\ cls.content.value.folderPath.k = "arr"

FirstElements(out, in, n) ==
    /\ Len(out) = Min(n, Len(in))
    /\ \A i \in 1..Len(out) : out[i] = in[i]

\* C9 as claimed: the first min(3, n) elements of folderPath are returned, with
\* the response's tags, or an empty sequence when the tags field is absent.
C9_AsClaimed ==
    ParsedWithPath =>
        /\ cls.phase = "returned"
        /\ FirstElements(cls.result.folderPath, cls.content.value.folderPath.v, 3)
        /\ cls.result.tags = IF cls.content.value.tags = Absent
                              THEN Arr(<<>>)
                              ELSE cls.content.value.tags

\* C9 amended: the first min(3, n) elements of folderPath are returned, with
\* the response's tags when they are a sequence (or any other truthy value),
\* and an empty sequence when the tags field is absent, null or an empty string.
C9_TruncatedPathAndTags ==
    ParsedWithPath =>
        /\ cls.phase = "returned"
        /\ FirstElements(cls.result.folderPath, cls.content.value.folderPath.v, 3)
        /\ cls.content.value.tags.k = "arr"
             => cls.result.tags = cls.content.value.tags
        /\ cls.content.value.tags \in {Absent, Null, Str(<<>>)}
             => cls.result.tags = Arr(<<>>)

\* the spec's example: five elements cut to three, no tags field
C9_Witness ==
    /\ cls.phase = "returned"
    /\ cls.content.kind = "json"
    /\ cls.content.value # Null
    /\ cls.content.value.folderPath = Arr(<<"x", "y", "x", "y", "y">>)
    /\ cls.content.value.tags = Absent
    /\ cls.result = [folderPath |-> <<"x", "y", "x">>, tags |-> Arr(<<>>)]

----------------------------------------------------------------------------
(* C10 *)

IsPrefix(q, r) == Len(q) <= Len(r) /\ q = SubSeq(r, 1, Len(q))

LoopOver(b) ==
    \/ b.phase \in {"sweep", "complete"}
    \/ b.phase = "error" /\ b.attempted # <<>>

\* C10: whichever items fail, classifyUrl is called for the links of the
\* snapshot one by one in snapshot order, each once; a run that got its
\* snapshot ends only after the last item, with the sweep called: an item's
\* failure never ends it.
C10_BatchContinuesPastFailures ==
    batch.phase # "idle" =>
        /\ IsPrefix(batch.attempted, batch.bookmarks)
        /\ batch.phase \in {"classify", "move", "delay"} =>
              /\ batch.i \in 1..Len(batch.bookmarks)
              /\ Len(batch.attempted) \in {batch.i - 1, batch.i}
        /\ LoopOver(batch) => batch.attempted = batch.bookmarks
        /\ batch.phase = "complete" => sweep.phase = "done"
        /\ (batch.phase = "error" /\ batch.attempted # <<>>) => sweep.phase = "failed"
        /\ batch.failed \subseteq 1..Len(batch.attempted)

\* the first item failed, a later one was moved, and the run completed
C10_Witness ==
    /\ batch.phase = "complete"
    /\ Len(batch.bookmarks) >= 2
    /\ 1 \in batch.failed
    /\ batch.processed >= 1
    /\ batch.attempted = batch.bookmarks
    /\ sweep.phase = "done"

----------------------------------------------------------------------------
(* C7 *)

RemoveAt(q, i) == SubSeq(q, 1, i - 1) \o SubSeq(q, i + 1, Len(q))

AdjacentRepeats(path) ==
    { i \in 1..(Len(path) - 1) :
        normalizeFolderName(path[i]) = normalizeFolderName(path[i + 1]) }

\* C7: a path with a segment repeated (by canonical key) right after itself
\* resolves to the same folder and leaves the same store as the path without
\* the repeat; and no folder is created directly under a folder that the same
\* resolution matched or created for the same canonical key.
C7_SelfNestingGuard ==
    ensOut.phase = "done" =>
        /\ \A i \in AdjacentRepeats(ensIn.path) :
              LET w == ensureFolderPath(ensIn.st, RemoveAt(ensIn.path, i + 1))
              IN  w.currentId = ensOut.id /\ w.st = store
        /\ \A j, k \in 1..Len(ensOut.trail) :
              ( /\ ensOut.trail[j].created
                /\ ensOut.trail[k].id = ParentOf(store, ensOut.trail[j].id) )
              => ensOut.trail[k].key # ensOut.trail[j].key

\* ["a", "*a", "b"]: the decorated repeat is skipped and "b" is created under "a"
C7_Witness ==
    /\ ensOut.phase = "done"
    /\ ensIn.path = << <<"a">>, <<"*", "a">>, <<"b">> >>
    /\ ensIn.st = RootsOnly
    /\ Len(ensOut.trail) = 2
    /\ ensOut.trail[2].created
    /\ ParentOf(store, ensOut.id) = ensOut.trail[1].id

----------------------------------------------------------------------------
(* C8 *)

\* the positions of a raw path whose trimmed segment is non-empty and whose
\* canonical key no earlier non-empty segment has
FirstOccurrences(p) ==
    { i \in 1..Len(p) :
        /\ Trim(p[i]) # <<>>
        /\ \A j \in 1..(i - 1) :
              Trim(p[j]) # <<>> =>
                normalizeFolderName(Trim(p[j])) # normalizeFolderName(Trim(p[i])) }

\* the k-th smallest element of a set of positions
NthOf(K, k) == CHOOSE i \in K : Cardinality({j \in K : j <= i}) = k

\* C8: sanitizeFolderPath returns the trimmed segments at the first occurrence
\* of each canonical key among the non-empty segments, in their original
\* order, and the canonical keys of the result are pairwise distinct.
C8_SanitizeFirstOccurrence ==
    spc = "done" =>
        LET K == FirstOccurrences(inPath)
        IN  /\ Len(outPath) = Cardinality(K)
            /\ \A k \in 1..Len(outPath) : outPath[k] = Trim(inPath[NthOf(K, k)])
            /\ \A k, m \in 1..Len(outPath) :
                  k # m => normalizeFolderName(outPath[k]) # normalizeFolderName(outPath[m])

\* the spec's example ["  ", "News", "World", "News"] -> ["News", "World"]
C8_Witness ==
    /\ spc = "done"
    /\ inPath = << <<" ", " ">>, <<"a">>, <<"b">>, <<"a">> >>
    /\ outPath = << <<"a">>, <<"b">> >>

----------------------------------------------------------------------------
(* Two createBookmark calls in flight at once.  A call is suspended at each
   await and resumes with the answer of the store call it awaited; every store
   call is atomic.  A call is a record
     phase     "new"     not yet called
               "find"    awaiting findFolder's getChildren for path[idx]
               "create"  awaiting chrome.bookmarks.create for path[idx]
               "place"   awaiting chrome.bookmarks.create for the bookmark
               "done"
     raw       the folderPath handed in
     path      sanitizeFolderPath(raw)
     idx, currentId, prev   ensureFolderPath's loop variables
     folderId  the folder the bookmark was put in
     op        "create" for createBookmark, "move" for moveBookmark of link 4
     error     a store call of this call was rejected
     created   the folders this call created
     storeCalls the store calls this call has issued
               "failed" is the phase of a call that threw *)

RECURSIVE NextAwait(_)
\* the synchronous code up to the next await of ensureFolderPath / createBookmark
NextAwait(w) ==
    IF w.idx > Len(w.path) THEN [w EXCEPT !.phase = "place"]
    ELSE IF w.prev = <<normalizeFolderName(w.path[w.idx])>>
         THEN NextAwait([w EXCEPT !.idx = @ + 1])
         ELSE [w EXCEPT !.phase = "find"]

NewWalk(raw) ==
    [ phase |-> "new", raw |-> raw, path |-> <<>>, idx |-> 1,
      currentId |-> BookmarksBarId, prev |-> <<>>, folderId |-> NoNode,
      op |-> "create", error |-> FALSE, created |-> {}, storeCalls |-> 0 ]

\* createBookmark is called: sanitizeFolderPath, then ensureFolderPath's loop
WalkBegin(p) ==
    /\ walks[p].phase = "new"
    /\ walks' = [walks EXCEPT ![p] =
                    NextAwait([walks[p] EXCEPT
                                  !.path = sanitizeFolderPath(walks[p].raw)])]
    /\ UNCHANGED <<sanVars, suspended, ensVars, pureVars, store, calls, sweep, clsVars, batch>>

\* findFolder's getChildren answers
WalkFind(p) ==
    LET w        == walks[p]
        rawName  == w.path[w.idx]
        existing == findFolder(store, w.currentId, rawName)
    IN  /\ w.phase = "find"
        /\ walks' = [walks EXCEPT ![p] =
                        IF existing # NoNode
                        THEN NextAwait([w EXCEPT !.currentId = existing,
                                                 !.prev = <<normalizeFolderName(rawName)>>,
                                                 !.idx = @ + 1,
                                                 !.storeCalls = @ + 1])
                        ELSE [w EXCEPT !.phase = "create", !.storeCalls = @ + 1]]
        /\ UNCHANGED <<sanVars, suspended, ensVars, pureVars, store, calls, sweep, clsVars, batch>>

\* chrome.bookmarks.create answers with the new folder
WalkCreate(p) ==
    LET w       == walks[p]
        rawName == w.path[w.idx]
    IN  /\ w.phase = "create"
        /\ store' = CreateFolder(store, w.currentId, StoredTitle(rawName))
        /\ walks' = [walks EXCEPT ![p] =
                        NextAwait([w EXCEPT !.currentId = store.next,
                                            !.prev = <<normalizeFolderName(rawName)>>,
                                            !.idx = @ + 1,
                                            !.created = @ \cup {store.next},
                                            !.storeCalls = @ + 1])]
        /\ UNCHANGED <<sanVars, suspended, ensVars, pureVars, calls, sweep, clsVars, batch>>

\* chrome.bookmarks.create answers with the new bookmark, or
\* chrome.bookmarks.move with the moved one
WalkPlace(p) ==
    LET w == walks[p]
    IN  /\ w.phase = "place"
        /\ store' = IF w.op = "create"
                    THEN CreateLink(store, w.currentId, LinkTitle)
                    ELSE MoveNode(store, 4, w.currentId)
        /\ walks' = [walks EXCEPT ![p] = [w EXCEPT !.phase = "done",
                                                   !.folderId = w.currentId,
                                                   !.storeCalls = @ + 1]]
        /\ UNCHANGED <<sanVars, suspended, ensVars, pureVars, calls, sweep, clsVars, batch>>

\* mutant: a rejected store call is issued again
RetryStoreCall(w) == [w EXCEPT !.error = TRUE, !.storeCalls = @ + 1]

\* the awaited store call rejects: nothing in ensureFolderPath, createBookmark
\* or moveBookmark catches it
StoreCallFailed(w) ==
    [w EXCEPT !.phase = "failed", !.error = TRUE, !.storeCalls = @ + 1]

\* findFolder's getChildren rejects
WalkFindFails(p) ==
    /\ walks[p].phase = "find"
    /\ walks' = [walks EXCEPT ![p] = StoreCallFailed(walks[p])]
    /\ UNCHANGED <<sanVars, suspended, ensVars, pureVars, store, calls, sweep, clsVars, batch>>

\* chrome.bookmarks.create rejects for the folder
WalkCreateFails(p) ==
    /\ walks[p].phase = "create"
    /\ walks' = [walks EXCEPT ![p] = StoreCallFailed(walks[p])]
    /\ UNCHANGED <<sanVars, suspended, ensVars, pureVars, store, calls, sweep, clsVars, batch>>

\* the last call, create or move of the bookmark, rejects
WalkPlaceFails(p) ==
    /\ walks[p].phase = "place"
    /\ walks' = [walks EXCEPT ![p] = StoreCallFailed(walks[p])]
    /\ UNCHANGED <<sanVars, suspended, ensVars, pureVars, store, calls, sweep, clsVars, batch>>

RaceLabels == { <<"a">>, <<"A">>, <<"*", "a">>, <<"b">> }

RacePaths == SeqsUpTo(RaceLabels, MaxRaceLen) \ {<<>>}

InitRace ==
    /\ store \in InitStores
    /\ \E p1, p2 \in RacePaths :
          /\ KeysOf(sanitizeFolderPath(p1)) = KeysOf(sanitizeFolderPath(p2))
          /\ walks = <<NewWalk(p1), NewWalk(p2)>>
    /\ inPath = <<>>
    /\ outPath = <<>>
    /\ spc = "idle"
    /\ ensIn = Idle
    /\ ensOut = Idle
    /\ calls = <<>>
    /\ sweep = Idle
    /\ detected = Idle
    /\ variants = Idle
    /\ ClsUnused
    /\ batch = Idle
    /\ suspended = <<>>

NextRace ==
    \E p \in 1..2 : WalkBegin(p) \/ WalkFind(p) \/ WalkCreate(p) \/ WalkPlace(p)

SpecRace == InitRace /\ [][NextRace]_vars

\* C11: two concurrent resolutions of paths with the same canonical keys,
\* interleaved at their awaits, end in the same folder, and no folder ends up
\* with two child folders of one canonical key.
C11_ConvergesUnderInterleaving ==
    ( /\ Len(walks) = 2
      /\ walks[1].phase = "done"
      /\ walks[2].phase = "done" )
    => /\ walks[1].folderId = walks[2].folderId
       /\ NoDuplicateSiblings(store)

----------------------------------------------------------------------------
(* C12, C13 *)

RECURSIVE Ancestors(_, _)
Ancestors(st, n) ==
    LET p == ParentOf(st, n)
    IN  IF p = NoNode THEN {} ELSE {p} \cup Ancestors(st, p)

Visited(sw) == { sw.returned[i][1] : i \in 1..Len(sw.returned) }

SweepContained ==
    sweep.phase \in {"running", "done"} =>
        /\ \A f \in sweep.failed :
              /\ f \in NodeIds(store)
              /\ <<f, TRUE>> \notin SeqToSet(sweep.returned)
              /\ \A a \in Ancestors(sweep.tree, f) :
                    /\ a \notin SeqToSet(sweep.issued)
                    /\ a \in NodeIds(store)
        /\ sweep.removedCount = Len(sweep.issued) - Cardinality(sweep.failed)
        /\ sweep.removedCount
             = Cardinality(NodeIds(sweep.tree)) - Cardinality(NodeIds(store))
        /\ sweep.phase = "done" => Visited(sweep) = FolderIds(sweep.tree)

\* C12: a folder whose removal the store rejects stays and is not counted, no
\* removal is issued for any of its ancestors, the pass still finishes every
\* folder of the tree, and a running pass never ends as a failure.
C12_DeletionFailureContained ==
    /\ []SweepContained
    /\ [][sweep.phase = "running" => sweep'.phase \in {"running", "done"}]_vars

\* 4 holds the empty folders 5 and 6; removing 5 is rejected, 6 still goes,
\* 4 is left alone and the total is 1
C12_Witness ==
    /\ sweep.phase = "done"
    /\ sweep.failed = {5}
    /\ sweep.issued = <<5, 6>>
    /\ sweep.removedCount = 1
    /\ 4 \in NodeIds(store)
    /\ 6 \notin NodeIds(store)

SystemReturns ==
    { i \in 1..Len(sweep.returned) : sweep.returned[i][1] \in systemIds }

LeftContent(sw, n) ==
    \E c \in SeqToSet(sw.tree.kids[n]) :
        \/ sw.tree.nodes[c].isLink
        \/ <<c, FALSE>> \in SeqToSet(sw.returned)

----------------------------------------------------------------------------
(* detectProvider on every credential, by what it reads of the credential *)

Prefixes == {"gho_", "github_pat_", "gsk_", "sk-", "sk-or-v1-", "xai-", "other"}
Parts == {"kimi", "or-v1", "openrouter", "grok"}

AllKeys == { Key(prefix, parts, long) :
                prefix \in Prefixes, parts \in SUBSET Parts, long \in BOOLEAN }

InitDetect ==
    /\ detected \in [ phase : {"ready"}, apiKey : AllKeys,
                      providerOverride : {None, "auto"} ]
    /\ inPath = <<>>
    /\ outPath = <<>>
    /\ spc = "idle"
    /\ store = RootsOnly
    /\ ensIn = Idle
    /\ ensOut = Idle
    /\ calls = <<>>
    /\ sweep = Idle
    /\ walks = <<>>
    /\ variants = Idle
    /\ ClsUnused
    /\ batch = Idle
    /\ suspended = <<>>

\* lines 123-126 with no usable preference: detectProvider(this.apiKey)
ApplyDetect ==
    /\ detected.phase = "ready"
    /\ detected' =
          [ phase |-> "done", apiKey |-> detected.apiKey,
            providerOverride |-> detected.providerOverride,
            provider |-> ResolveProvider(ProviderTable,
                            [ apiKey |-> detected.apiKey,
                              providerOverride |-> detected.providerOverride,
                              selectedOpenRouterModel |-> None ]) ]
    /\ UNCHANGED <<sanVars, suspended, ensVars, walks, variants, bmVars, clsVars>>

NextDetect == ApplyDetect

SpecDetect == InitDetect /\ [][NextDetect]_vars

FamilyOf(prefix) ==
    CASE prefix \in {"gho_", "github_pat_"} -> "GitHub Copilot"
      [] prefix = "gsk_"                    -> "Groq"
      [] prefix = "sk-"                     -> "OpenAI"
      [] prefix = "sk-or-v1-"               -> "OpenRouter"
      [] prefix = "xai-"                    -> "Grok"
      [] OTHER                              -> "none"

\* a prefix or content test of detectProvider other than the length test
\* accepts the credential
SpecificRule(k) ==
    \/ k.prefix \in {"gho_", "github_pat_", "gsk_", "sk-or-v1-", "xai-"}
    \/ k.prefix = "sk-" /\ k.parts \cap {"kimi", "or-v1"} = {}
    \/ k.parts \cap {"openrouter", "kimi", "grok"} # {}

\* C14: with no explicit preference a credential with a provider-specific
\* prefix (and no other marker in it) gets that prefix's family whatever its
\* length, and the length test alone decides the family (Moonshot) only for a
\* credential that no prefix or content test accepts.
C14_PrefixBeatsLength ==
    detected.phase = "done" =>
        LET k    == detected.apiKey
            name == detected.provider.name
        IN  /\ (k.prefix # "other" /\ k.parts = {}) => name = FamilyOf(k.prefix)
            /\ (name = "Moonshot (Kimi)" /\ "kimi" \notin k.parts) =>
                  ~SpecificRule(k)

----------------------------------------------------------------------------
(* C15, C16 *)

PreconditionError ==
    Message("API key not configured. Please save your API key first.", 0, "")

\* C15: with no credential saved, or an empty or whitespace-only one, a
\* classifyUrl call throws the precondition error and has issued no completion
\* request, token exchange or model discovery and no read or write of the
\* persisted preference or model choice.
C15_MissingCredentialFatal ==
    (cls.phase # "idle" /\ (secret.absent \/ secret.blank)) =>
        /\ cls.phase = "threw"
        /\ cls.thrown = PreconditionError
        /\ cls.completions = 0
        /\ cls.tokenExchanges = 0
        /\ cls.discoveries = 0
        /\ cls.prefReads = 0
        /\ cls.prefWrites = 0

\* the second call on a whitespace-only credential has thrown as well
C15_Witness ==
    /\ secret = BlankKey
    /\ cls.phase = "threw"
    /\ cls.calls = 2
    /\ cls.thrown = PreconditionError

\* the first completion request failed outside the fallback's one case
FirstFailedIneligible ==
    /\ cls.phase # "idle"
    /\ Len(cls.statuses) >= 1
    /\ cls.statuses[1] # 200
    /\ ~(cls.provider.name = "OpenRouter" /\ cls.statuses[1] = 404)

\* C16: when the first completion request fails with anything but a 404 on
\* the OpenRouter family, the call has failed with exactly one completion
\* request, no model discovery and no clear or write of the persisted model.
C16_NoFallbackOutsideEligibleCase ==
    FirstFailedIneligible =>
        /\ cls.phase = "threw"
        /\ cls.completions = 1
        /\ cls.discoveries = 0
        /\ cls.prefWrites = 0
        /\ ~cls.retried

\* a 404 from a provider other than OpenRouter
C16_Witness ==
    /\ cls.phase = "threw"
    /\ cls.provider.name = "OpenAI"
    /\ cls.statuses = <<404>>
    /\ cls.thrown.status = 404

----------------------------------------------------------------------------
(* BackgroundService.handleMessage: CREATE_BOOKMARK requests arriving before,
   during and after an organizeAllBookmarks run *)

\* lines 38-48, and 58-62 when createBookmark throws before it touched the store
HandleCreateBookmark ==
    /\ Len(calls) < MaxRequests
    /\ \E folderPath \in BatchPaths :
          LET r == createBookmark(store, LinkTitle, folderPath)
          IN  \/ /\ store' = r.st
                 /\ calls' = Append(calls, [op |-> "create", path |-> folderPath,
                                            folderId |-> r.folderId,
                                            created |-> r.created])
              \/ /\ store' = store
                 /\ calls' = Append(calls, [op |-> "create", path |-> folderPath,
                                            folderId |-> NoNode, created |-> {}])
    /\ UNCHANGED <<sanVars, suspended, walks, pureVars, ensVars, sweep, clsVars, batch>>

InitService ==
    /\ store \in Grow(BareRoots, MaxServiceNodes)
    /\ inPath = <<>>
    /\ outPath = <<>>
    /\ spc = "idle"
    /\ ensIn = Idle
    /\ ensOut = Idle
    /\ calls = <<>>
    /\ sweep = Idle
    /\ walks = <<>>
    /\ detected = Idle
    /\ variants = Idle
    /\ ClsUnused
    /\ batch = Idle
    /\ suspended = <<>>

NextService == BatchStep \/ HandleCreateBookmark

SpecService == InitService /\ [][NextService]_vars

----------------------------------------------------------------------------
(* C17, C18 *)

Actions(b) == [i \in 1..Len(b.sent) |-> b.sent[i].action]

SweepFailureReported ==
    (batch.phase # "idle" /\ sweep.phase = "failed") =>
        /\ "ORGANIZE_COMPLETE" \notin SeqToSet(Actions(batch))
        /\ batch.phase \in {"sweep", "error"}
        /\ batch.phase = "error" =>
              /\ batch.sent # <<>>
              /\ batch.sent[Len(batch.sent)].action = "ORGANIZE_ERROR"

\* C17: when the removeEmptyFolders call of a run rejects, the run's next step
\* sends ORGANIZE_ERROR and ends it, and the run never sends ORGANIZE_COMPLETE.
C17_SweepFailureFailsBatch ==
    /\ []SweepFailureReported
    /\ [][(batch.phase = "sweep" /\ sweep.phase = "failed" /\ batch' # batch) =>
             /\ batch'.phase = "error"
             /\ batch'.sent = Append(batch.sent, [action |-> "ORGANIZE_ERROR"])]_vars

\* an item was moved, then the sweep rejected and the run ended in error
C17_Witness ==
    /\ batch.phase = "error"
    /\ sweep.phase = "failed"
    /\ batch.processed >= 1
    /\ batch.sent[Len(batch.sent)].action = "ORGANIZE_ERROR"

SweepAfterLastItem ==
    batch.phase # "idle" =>
        /\ batch.phase \in {"getAllBookmarks", "getExistingFolders",
                            "classify", "move", "delay"} => sweep.phase = "idle"
        /\ sweep.phase # "idle" =>
              /\ batch.phase \in {"sweep", "complete", "error"}
              /\ batch.attempted = batch.bookmarks
        /\ batch.phase = "complete" => sweep.phase = "done"

\* C18: a run calls removeEmptyFolders only once all its items were attempted,
\* a run that completes has called it, a call once made is never made again,
\* and a CREATE_BOOKMARK request neither starts or advances the sweep nor
\* takes any node out of the store.
C18_SweepOncePerBatchOnly ==
    /\ []SweepAfterLastItem
    /\ [][/\ batch.phase = "idle" => sweep' = sweep
          /\ sweep.phase # "idle" =>
                /\ sweep'.phase # "idle"
                /\ sweep'.phase = "running" => sweep.phase = "running"
          /\ calls' # calls =>
                /\ sweep' = sweep
                /\ NodeIds(store) \subseteq NodeIds(store')]_vars

\* a CREATE_BOOKMARK request was served between two items of a run with two
\* bookmarks, and the run went on to its sweep
C18_Witness ==
    /\ batch.phase = "complete"
    /\ sweep.phase = "done"
    /\ Len(batch.bookmarks) = 2
    /\ Len(calls) = 1
    /\ calls[1].created # {}
    /\ sweep.removedCount >= 1

----------------------------------------------------------------------------
(* normalizeFolderName on every short label and each label got from it by one
   more piece of decoration *)

Alphabet == {"a", "A", "b", " ", "/", "*"}

FlipCase(c) == IF c = "a" THEN "A" ELSE IF c = "A" THEN "a" ELSE c

\* position i of s lies in a whitespace run with text on both sides
Interior(s, i) ==
    /\ s[i] \in Whitespace
    /\ \E j \in 1..(i - 1) : s[j] \notin Whitespace
    /\ \E j \in (i + 1)..Len(s) : s[j] \notin Whitespace

\* the labels that differ from s by one step of decoration
Decorations(s) ==
    { [kind |-> "case", label |-> [s EXCEPT ![i] = FlipCase(@)]] :
        i \in {j \in 1..Len(s) : s[j] \in {"a", "A"}} }
    \cup { [kind |-> "leading whitespace", label |-> <<" ">> \o s],
           [kind |-> "trailing whitespace", label |-> s \o <<" ">>],
           [kind |-> "leading slash", label |-> <<"/">> \o s],
           [kind |-> "trailing slash", label |-> s \o <<"/">>],
           [kind |-> "leading symbol", label |-> <<"*">> \o s] }
    \cup { [kind |-> "interior whitespace",
            label |-> SubSeq(s, 1, i) \o <<" ">> \o SubSeq(s, i + 1, Len(s))] :
        i \in {j \in 1..Len(s) : Interior(s, j)} }

InitNormalize ==
    /\ variants \in [phase : {"ready"}, label : SeqsUpTo(Alphabet, MaxLabelLen)]
    /\ inPath = <<>>
    /\ outPath = <<>>
    /\ spc = "idle"
    /\ store = RootsOnly
    /\ ensIn = Idle
    /\ ensOut = Idle
    /\ calls = <<>>
    /\ sweep = Idle
    /\ walks = <<>>
    /\ detected = Idle
    /\ ClsUnused
    /\ batch = Idle
    /\ suspended = <<>>

\* normalizeFolderName(label) and normalizeFolderName(variant)
ApplyNormalize ==
    /\ variants.phase = "ready"
    /\ \E v \in Decorations(variants.label) :
          variants' = [ phase |-> "done", label |-> variants.label,
                        kind |-> v.kind, variant |-> v.label,
                        key |-> normalizeFolderName(variants.label),
                        variantKey |-> normalizeFolderName(v.label) ]
    /\ UNCHANGED <<sanVars, suspended, ensVars, walks, detected, bmVars, clsVars>>

NextNormalize == ApplyNormalize

SpecNormalize == InitNormalize /\ [][NextNormalize]_vars

\* C19: two labels that differ only in letter case, leading or trailing
\* whitespace, leading or trailing slashes, the length of an interior
\* whitespace run or a leading run of non-letter characters have the same
\* canonical key.
C19_DecoratedVariantsSameKey ==
    variants.phase = "done" => variants.key = variants.variantKey

----------------------------------------------------------------------------
(* One createBookmark or moveBookmark call with a path of up to MaxPlaceLen
   segments *)

PlaceLabels == { <<"a">>, <<"A">>, <<"*", "a">>, <<"b">>, <<" ", " ">> }

InitPlace ==
    /\ store \in InitStores
    /\ calls = <<>>
    /\ inPath = <<>>
    /\ outPath = <<>>
    /\ spc = "idle"
    /\ ensIn = Idle
    /\ ensOut = Idle
    /\ sweep = Idle
    /\ walks = <<>>
    /\ detected = Idle
    /\ variants = Idle
    /\ ClsUnused
    /\ batch = Idle
    /\ suspended = <<>>

PlaceCreate ==
    /\ calls = <<>>
    /\ \E path \in SeqsUpTo(PlaceLabels, MaxPlaceLen) :
          LET r == createBookmark(store, LinkTitle, path)
          IN  /\ store' = r.st
              /\ calls' = <<[op |-> "create", path |-> path,
                             folderId |-> r.folderId, created |-> r.created]>>
    /\ UNCHANGED <<sanVars, suspended, walks, pureVars, ensVars, sweep, clsVars, batch>>

PlaceMove ==
    /\ calls = <<>>
    /\ \E path \in SeqsUpTo(PlaceLabels, MaxPlaceLen) :
          LET r == moveBookmark(store, 4, path)
          IN  /\ store' = r.st
              /\ calls' = <<[op |-> "move", path |-> path,
                             folderId |-> r.folderId, created |-> r.created]>>
    /\ UNCHANGED <<sanVars, suspended, walks, pureVars, ensVars, sweep, clsVars, batch>>

NextPlace == PlaceCreate \/ PlaceMove

SpecPlace == InitPlace /\ [][NextPlace]_vars

----------------------------------------------------------------------------
(* C20 *)

RECURSIVE Depth(_, _)
\* the number of folders from the bookmarks bar down to folder id
Depth(st, id) ==
    IF id = BookmarksBarId \/ ParentOf(st, id) = NoNode THEN 0
    ELSE 1 + Depth(st, ParentOf(st, id))

\* a path [A, B, A]: the first and third segments share a key the second
\* does not have
Sandwich(path) ==
    /\ Len(path) = 3
    /\ \A i \in 1..3 : Trim(path[i]) # <<>>
    /\ normalizeFolderName(path[1]) = normalizeFolderName(path[3])
    /\ normalizeFolderName(path[1]) # normalizeFolderName(path[2])

\* C20 as claimed: a path [A, B, A] resolves to the three-level folder A/B/A
C20_AsClaimed ==
    \A k \in 1..Len(calls) :
        Sandwich(calls[k].path) =>
            /\ Depth(store, calls[k].folderId) = 3
            /\ normalizeFolderName(store.nodes[calls[k].folderId].title)
                 = normalizeFolderName(calls[k].path[1])

DistinctKeys(path) ==
    { normalizeFolderName(path[i]) : i \in {j \in 1..Len(path) : Trim(path[j]) # <<>>} }

\* C20: createBookmark / moveBookmark resolve a path to a folder as deep as
\* the path has distinct canonical keys among its non-blank segments: a
\* repeated key is dropped wherever it stands, so [A, B, A] resolves to the
\* two-level folder A/B.
C20_RepeatsDroppedAnywhere ==
    \A k \in 1..Len(calls) :
        /\ Depth(store, calls[k].folderId) = Cardinality(DistinctKeys(calls[k].path))
        /\ Sandwich(calls[k].path) =>
              /\ Depth(store, calls[k].folderId) = 2
              /\ normalizeFolderName(store.nodes[calls[k].folderId].title)
                   = normalizeFolderName(calls[k].path[2])

\* createBookmark with ["a", "b", "A"] on a store without folders: the
\* bookmark lands in a/b
C20_Witness ==
    /\ Len(calls) = 1
    /\ calls[1].op = "create"
    /\ calls[1].path = << <<"a">>, <<"b">>, <<"A">> >>
    /\ Depth(store, calls[1].folderId) = 2
    /\ store.nodes[calls[1].folderId].title = <<"b">>
    /\ store.nodes[ParentOf(store, calls[1].folderId)].title = <<"a">>

----------------------------------------------------------------------------
(* C21 *)

IssuedContentFree ==
    sweep.phase \in {"running", "done"} =>
        \A i \in 1..Len(sweep.issued) :
            /\ sweep.issued[i] \in FolderIds(sweep.tree)
            /\ LinkFree(sweep.tree, sweep.issued[i])

\* C21: removeEmptyFolders calls remove only for folders whose subtree in the
\* snapshot holds no link, and every node that leaves the store, with
\* CREATE_BOOKMARK requests served between the steps of the sweep, is a folder
\* that has no child at that moment.
C21_NoContentCollected ==
    /\ []IssuedContentFree
    /\ [][\A n \in NodeIds(store) \ NodeIds(store') :
             /\ ~store.nodes[n].isLink
             /\ store.kids[n] = <<>>]_vars

\* a folder the snapshot saw empty got a bookmark from a CREATE_BOOKMARK
\* request before the sweep reached it; its removal was rejected and it stays
C21_Witness ==
    /\ sweep.phase = "done"
    /\ Len(calls) = 1
    /\ \E n \in sweep.failed :
          /\ sweep.tree.kids[n] = <<>>
          /\ n \in FolderIds(store)
          /\ store.kids[n] # <<>>
          /\ calls[1].folderId = n

----------------------------------------------------------------------------
(* C22 *)

\* the model a call starts its first request with is the table's model for
\* its provider or the persisted selected model
ModelFromTableOrSelection ==
    cls.phase \in {"token", "attempt"} =>
        \/ cls.provider.model
             = ProviderTable[KeyOf(ProviderTable, cls.provider.name)].model
        \/ prefs.model # None /\ cls.provider.model = prefs.model

\* C22: after any sequence of classifyUrl calls the provider table is the one
\* the classifier was constructed with, and the model a call starts with is
\* the table's or the persisted selected model: no model of an earlier call
\* reaches it any other way.
C22_ProviderTableNeverMutated ==
    /\ providers = ProviderTable
    /\ ModelFromTableOrSelection

----------------------------------------------------------------------------
(* One createBookmark or moveBookmark call, one store call at a time, any of
   which the store may reject *)

InitWalk ==
    /\ store \in InitStores
    /\ \E path \in RacePaths, op \in {"create", "move"} :
          walks = <<[NewWalk(path) EXCEPT !.op = op]>>
    /\ inPath = <<>>
    /\ outPath = <<>>
    /\ spc = "idle"
    /\ ensIn = Idle
    /\ ensOut = Idle
    /\ calls = <<>>
    /\ sweep = Idle
    /\ detected = Idle
    /\ variants = Idle
    /\ ClsUnused
    /\ batch = Idle
    /\ suspended = <<>>

NextWalk ==
    \/ WalkBegin(1)
    \/ WalkFind(1)
    \/ WalkFindFails(1)
    \/ WalkCreate(1)
    \/ WalkCreateFails(1)
    \/ WalkPlace(1)
    \/ WalkPlaceFails(1)

SpecWalk == InitWalk /\ [][NextWalk]_vars

----------------------------------------------------------------------------
(* C23 *)

FailedWalkStops ==
    \A p \in 1..Len(walks) :
        walks[p].error =>
            /\ walks[p].phase = "failed"
            /\ walks[p].folderId = NoNode
            /\ Links(store) = {4}
            /\ ParentOf(store, 4) = BookmarksBarId
            /\ walks[p].created \subseteq FolderIds(store)

\* C23: once a store call of createBookmark / moveBookmark is rejected the
\* call has failed; it issues no store call after that, the bookmark is
\* neither created nor moved, and the folders it created before stay.
C23_StoreFailurePropagates ==
    /\ []FailedWalkStops
    /\ [][\A p \in 1..Len(walks) :
             walks[p].error => (walks'[p] = walks[p] /\ store' = store)]_vars

\* the folder for the first segment was created, then the lookup for the
\* second segment was rejected
C23_Witness ==
    /\ Len(walks) = 1
    /\ walks[1].phase = "failed"
    /\ walks[1].idx = 2
    /\ walks[1].storeCalls = 3
    /\ walks[1].created # {}
    /\ walks[1].created \subseteq FolderIds(store)

----------------------------------------------------------------------------
(* C24 *)

\* C24: for every segment of a sanitized path for which ensureFolderPath
\* created a folder, the stored title has the segment's canonical key, and a
\* lookup of the segment under the folder's parent finds that folder.
C24_CreatedFolderFindable ==
    ( /\ ensOut.phase = "done"
      /\ ensIn.path = sanitizeFolderPath(ensIn.path) ) =>
        \A i \in 1..Len(ensOut.trail) :
            LET t == ensOut.trail[i]
            IN  t.created =>
                  /\ normalizeFolderName(store.nodes[t.id].title)
                       = normalizeFolderName(t.raw)
                  /\ findFolder(store, ParentOf(store, t.id), t.raw) = t.id

----------------------------------------------------------------------------
(* C25 *)

\* C25: no call creates a folder whose title is empty or whitespace only, and
\* no segment of a sanitized path has an empty canonical key.
C25_NoEmptyLabels ==
    \A k \in 1..Len(calls) :
        /\ \A c \in calls[k].created :
              Trim(store.nodes[c].title) # <<>>
        /\ LET path == sanitizeFolderPath(calls[k].path)
           IN  \A i \in 1..Len(path) : normalizeFolderName(path[i]) # <<>>

----------------------------------------------------------------------------
(* C26 *)

\* C26: when an item is about to be classified and the folder list was read
\* from the store, the list handed to classifyUrl holds every folder path of
\* the store at that moment.
C26_ClassificationSeesCurrentFolders ==
    ( /\ batch.phase = "classify"
      /\ batch.listed ) =>
        SeqToSet(getExistingFolders(store)) \subseteq SeqToSet(batch.existingFolders)

----------------------------------------------------------------------------
(* C27 *)

\* C27: a result returned by classifyUrl has one to three folderPath elements,
\* and it was parsed from a response whose folderPath is a non-empty sequence.
C27_PathOneToThree ==
    cls.phase = "returned" =>
        /\ Len(cls.result.folderPath) \in 1..MaxDepth
        /\ cls.content.value.folderPath.k = "arr"
        /\ cls.content.value.folderPath.v # <<>>

----------------------------------------------------------------------------
(* ORGANIZE_ALL_BOOKMARKS requests while a run is there.  handleMessage calls
   organizeAllBookmarks() without awaiting it, so the handler returns while
   the run waits at its first await; the next message is handled the same
   way.  batch and sweep hold the run that takes the next step, suspended the
   runs waiting at an await. *)

\* lines 49-53: a request arrives after a run has started; a new run starts
\* and goes up to its first await
HandleOrganizeAgain ==
    /\ batch.phase # "idle"
    /\ Len(suspended) + 1 < MaxRuns
    /\ suspended' = Append(suspended, [batch |-> batch, sweep |-> sweep])
    /\ batch' = [ phase |-> "getAllBookmarks", bookmarks |-> <<>>,
                  existingFolders |-> <<>>, listed |-> FALSE, i |-> 0,
                  classification |-> <<>>,
                  processed |-> 0, attempted |-> <<>>, failed |-> {},
                  sent |-> <<>> ]
    /\ sweep' = Idle
    /\ UNCHANGED <<sanVars, walks, pureVars, ensVars, store, calls, clsVars>>

\* the run in hand waits at an await and the event loop resumes another one
ResumeOther ==
    /\ suspended # <<>>
    /\ batch' = Head(suspended).batch
    /\ sweep' = Head(suspended).sweep
    /\ suspended' = Append(Tail(suspended), [batch |-> batch, sweep |-> sweep])
    /\ UNCHANGED <<sanVars, walks, pureVars, ensVars, store, calls, clsVars>>

InitRuns ==
    /\ inPath = <<>> /\ outPath = <<>> /\ spc = "idle"
    /\ store \in Grow(BareRoots, MaxRunNodes)
    /\ ensIn = Idle /\ ensOut = Idle
    /\ calls = <<>>
    /\ sweep = Idle
    /\ walks = <<>>
    /\ detected = Idle
    /\ variants = Idle
    /\ ClsUnused
    /\ batch = Idle
    /\ suspended = <<>>

NextRuns == BatchStep \/ HandleOrganizeAgain \/ ResumeOther

SpecRuns == InitRuns /\ [][NextRuns]_vars

----------------------------------------------------------------------------
(* C28 *)

InProgress(b) == b.phase \notin {"idle", "complete", "error"}

\* C28: at most one organizeAllBookmarks run is in progress at any time.
C28_OneRunInProgress ==
    ~ ( /\ InProgress(batch)
        /\ \E k \in 1..Len(suspended) : InProgress(suspended[k].batch) )

----------------------------------------------------------------------------
(* A run whose collaborator calls all return or fail: every await of
   organizeAllBookmarks is resumed, so a step that can be taken is taken *)

\* each pending call is answered: the step that resumes the run is taken
BatchFairness ==
    /\ WF_vars(BatchStart)
    /\ WF_vars(BatchGetAllBookmarks)
    /\ WF_vars(BatchGetExistingFolders)
    /\ WF_vars(BatchClassifyReturns \/ BatchClassifyThrows)
    /\ WF_vars(BatchMoveThrows \/ BatchMoveReturns)
    /\ WF_vars(BatchDelay)
    /\ WF_vars(BatchSweep)
    /\ WF_vars(SweepStep)
    /\ WF_vars(BatchComplete)
    /\ WF_vars(BatchSweepThrew)

SpecBatchFair == InitBatch /\ [][NextBatch]_vars /\ BatchFairness

----------------------------------------------------------------------------
(* C29 *)

Terminal(message) == message.action \in {"ORGANIZE_COMPLETE", "ORGANIZE_ERROR"}

TerminalSent(b) == {k \in 1..Len(b.sent) : Terminal(b.sent[k])}

OneTerminalNotification ==
    batch.phase # "idle" =>
        /\ batch.phase \in {"complete", "error"} => TerminalSent(batch) = {Len(batch.sent)}
        /\ batch.phase \notin {"complete", "error"} => TerminalSent(batch) = {}
        /\ batch.phase = "complete" =>
              /\ batch.sent[Len(batch.sent)].action = "ORGANIZE_COMPLETE"
              /\ batch.sent[Len(batch.sent)].processed
                   = Cardinality((1..Len(batch.attempted)) \ batch.failed)
              /\ batch.sent[Len(batch.sent)].processed <= Len(batch.bookmarks)
              /\ batch.sent[Len(batch.sent)].total = Len(batch.bookmarks)
        /\ batch.phase = "error" =>
              batch.sent[Len(batch.sent)].action = "ORGANIZE_ERROR"

\* C29: a started run eventually sends ORGANIZE_COMPLETE or ORGANIZE_ERROR;
\* it sends exactly one of them, as its last notification, and nothing after
\* it; the processed count of ORGANIZE_COMPLETE is the number of items whose
\* classification and move both succeeded, at most the snapshot's length.
C29_OneTerminalNotification ==
    /\ []OneTerminalNotification
    /\ [][batch.phase \in {"complete", "error"} => batch' = batch]_vars
    /\ (batch.phase # "idle") ~> (batch.phase \in {"complete", "error"})

\* a run over two items, one failed and one moved: one progress notification,
\* then the completion
C29_Witness ==
    /\ batch.phase = "complete"
    /\ Len(batch.bookmarks) = 2
    /\ Cardinality(batch.failed) = 1
    /\ Len(batch.sent) = 2
    /\ batch.sent[1].action = "ORGANIZE_PROGRESS"
    /\ batch.sent[2] = [action |-> "ORGANIZE_COMPLETE", processed |-> 1,
                        total |-> 2, removedFolders |-> sweep.removedCount]

====
